---- MODULE Spec2Model ----
(***************************************************************************)
(* A model of the polykms front end: the client-side secret cipher         *)
(* (utils/crypto: parseJWT, encryptSecret, decryptSecret), the session     *)
(* token kept in localStorage (utils/api.ts) and the secret handlers of    *)
(* components/SecretManagement.tsx.                                        *)
(*                                                                         *)
(* Strings are sequences of character codes, byte buffers are sequences    *)
(* of 0..255.  An absent value (undefined, null, '') is the empty          *)
(* sequence, which is exactly what the code's truthiness tests             *)
(* (`if (!token)`, `if (formData.private_key)`) distinguish.               *)
(***************************************************************************)
EXTENDS Integers, Sequences, FiniteSets, TLC

(***************************************************************************)
(* Program constants                                                       *)
(***************************************************************************)
KeyLen == 32
NonceLen == 12
TagLen == 16

(***************************************************************************)
(* Generic sequence helpers                                                *)
(***************************************************************************)
(* the function f over 1..n as a tuple, its elements computed once *)
Flat(f) == f \o <<>>

Fill(n, b) == Flat([i \in 1..n |-> b])

Slice(s, from, to) == IF to >= from THEN SubSeq(s, from, to) ELSE <<>>

Min(a, b) == IF a < b THEN a ELSE b

RECURSIVE WeightedSum(_, _, _, _)
(* sum over i in from..Len(s) of (mul * i + add) * s[i] *)
WeightedSum(s, i, mul, add) ==
    IF i > Len(s) THEN 0 ELSE (mul * i + add) * s[i] + WeightedSum(s, i + 1, mul, add)

(***************************************************************************)
(* Character codes used by the token and JSON syntax                       *)
(***************************************************************************)
ChDot == 46
ChPlus == 43
ChSlash == 47
ChMinus == 45
ChUnderscore == 95
ChEquals == 61
ChQuote == 34
ChColon == 58
ChComma == 44
ChLBrace == 123
ChRBrace == 125

(***************************************************************************)
(* base64 (btoa / atob)                                                    *)
(***************************************************************************)
B64Char(v) ==
    IF v < 26 THEN 65 + v
    ELSE IF v < 52 THEN 97 + (v - 26)
    ELSE IF v < 62 THEN 48 + (v - 52)
    ELSE IF v = 62 THEN ChPlus
    ELSE ChSlash

(* the 6-bit value of a base64 character, -1 for a character outside the alphabet *)
B64Val(c) ==
    IF c >= 65 /\ c <= 90 THEN c - 65
    ELSE IF c >= 97 /\ c <= 122 THEN c - 97 + 26
    ELSE IF c >= 48 /\ c <= 57 THEN c - 48 + 52
    ELSE IF c = ChPlus THEN 62
    ELSE IF c = ChSlash THEN 63
    ELSE -1

RECURSIVE Base64Encode(_)
Base64Encode(bytes) ==
    IF Len(bytes) = 0 THEN <<>>
    ELSE IF Len(bytes) = 1 THEN
        << B64Char(bytes[1] \div 4), B64Char((bytes[1] % 4) * 16), ChEquals, ChEquals >>
    ELSE IF Len(bytes) = 2 THEN
        << B64Char(bytes[1] \div 4),
           B64Char((bytes[1] % 4) * 16 + (bytes[2] \div 16)),
           B64Char((bytes[2] % 16) * 4), ChEquals >>
    ELSE
        << B64Char(bytes[1] \div 4),
           B64Char((bytes[1] % 4) * 16 + (bytes[2] \div 16)),
           B64Char((bytes[2] % 16) * 4 + (bytes[3] \div 64)),
           B64Char(bytes[3] % 64) >> \o Base64Encode(Slice(bytes, 4, Len(bytes)))

(* number of trailing '=' characters, at most 2 *)
PadCount(chars) ==
    IF Len(chars) >= 2 /\ chars[Len(chars)] = ChEquals /\ chars[Len(chars) - 1] = ChEquals THEN 2
    ELSE IF Len(chars) >= 1 /\ chars[Len(chars)] = ChEquals THEN 1
    ELSE 0

Base64Valid(chars) ==
    LET body == Slice(chars, 1, Len(chars) - PadCount(chars))
    IN  /\ Len(chars) % 4 = 0
        /\ \A i \in 1..Len(body) : B64Val(body[i]) >= 0
        /\ Len(body) % 4 # 1

RECURSIVE DecodeSextets(_)
DecodeSextets(body) ==
    IF Len(body) < 2 THEN <<>>
    ELSE IF Len(body) = 2 THEN
        << B64Val(body[1]) * 4 + (B64Val(body[2]) \div 16) >>
    ELSE IF Len(body) = 3 THEN
        << B64Val(body[1]) * 4 + (B64Val(body[2]) \div 16),
           (B64Val(body[2]) % 16) * 16 + (B64Val(body[3]) \div 4) >>
    ELSE
        << B64Val(body[1]) * 4 + (B64Val(body[2]) \div 16),
           (B64Val(body[2]) % 16) * 16 + (B64Val(body[3]) \div 4),
           (B64Val(body[3]) % 4) * 64 + B64Val(body[4]) >> \o DecodeSextets(Slice(body, 5, Len(body)))

(* the decoded bytes of a valid base64 string *)
Base64Decode(chars) == DecodeSextets(Slice(chars, 1, Len(chars) - PadCount(chars)))

(***************************************************************************)
(* UTF-8 (TextEncoder / TextDecoder) over sequences of code points         *)
(***************************************************************************)
Utf8OfCodePoint(cp) ==
    IF cp < 128 THEN << cp >>
    ELSE IF cp < 2048 THEN << 192 + (cp \div 64), 128 + (cp % 64) >>
    ELSE IF cp < 65536 THEN << 224 + (cp \div 4096), 128 + ((cp \div 64) % 64), 128 + (cp % 64) >>
    ELSE << 240 + (cp \div 262144), 128 + ((cp \div 4096) % 64), 128 + ((cp \div 64) % 64), 128 + (cp % 64) >>

RECURSIVE Utf8Encode(_)
Utf8Encode(cps) ==
    IF Len(cps) = 0 THEN <<>> ELSE Utf8OfCodePoint(cps[1]) \o Utf8Encode(Tail(cps))

IsCont(b) == b >= 128 /\ b < 192

ReplacementChar == 65533

RECURSIVE Utf8Decode(_)
Utf8Decode(bytes) ==
    IF Len(bytes) = 0 THEN <<>>
    ELSE LET b == bytes[1] IN
        IF b < 128 THEN << b >> \o Utf8Decode(Tail(bytes))
        ELSE IF b >= 192 /\ b < 224 /\ Len(bytes) >= 2 /\ IsCont(bytes[2]) THEN
            << (b - 192) * 64 + (bytes[2] - 128) >> \o Utf8Decode(Slice(bytes, 3, Len(bytes)))
        ELSE IF b >= 224 /\ b < 240 /\ Len(bytes) >= 3 /\ IsCont(bytes[2]) /\ IsCont(bytes[3]) THEN
            << (b - 224) * 4096 + (bytes[2] - 128) * 64 + (bytes[3] - 128) >>
                \o Utf8Decode(Slice(bytes, 4, Len(bytes)))
        ELSE IF b >= 240 /\ b < 248 /\ Len(bytes) >= 4
                /\ IsCont(bytes[2]) /\ IsCont(bytes[3]) /\ IsCont(bytes[4]) THEN
            << (b - 240) * 262144 + (bytes[2] - 128) * 4096 + (bytes[3] - 128) * 64 + (bytes[4] - 128) >>
                \o Utf8Decode(Slice(bytes, 5, Len(bytes)))
        ELSE << ReplacementChar >> \o Utf8Decode(Tail(bytes))

(***************************************************************************)
(* JSON.parse, for the token payload: a flat object whose values are       *)
(* strings (without escapes) or unsigned integers, without white space.    *)
(* Any other text is a syntax error.                                       *)
(***************************************************************************)
IsDigit(c) == c >= 48 /\ c <= 57

RECURSIVE FindChar(_, _, _)
(* the first position >= i of character c in s, 0 when there is none *)
FindChar(s, i, c) ==
    IF i > Len(s) THEN 0 ELSE IF s[i] = c THEN i ELSE FindChar(s, i + 1, c)

RECURSIVE DigitsEnd(_, _)
(* the first position >= i of s that holds no digit *)
DigitsEnd(s, i) ==
    IF i <= Len(s) /\ IsDigit(s[i]) THEN DigitsEnd(s, i + 1) ELSE i

(* a JSON string starting at s[i]: [ok, val, next] *)
ParseString(s, i) ==
    IF i > Len(s) \/ s[i] # ChQuote THEN [ok |-> FALSE, val |-> <<>>, next |-> i]
    ELSE LET j == FindChar(s, i + 1, ChQuote) IN
        IF j = 0 THEN [ok |-> FALSE, val |-> <<>>, next |-> i]
        ELSE [ok |-> TRUE, val |-> Slice(s, i + 1, j - 1), next |-> j + 1]

(* a JSON value starting at s[i]: [ok, kind, val, next] *)
ParseValue(s, i) ==
    IF i <= Len(s) /\ s[i] = ChQuote THEN
        LET r == ParseString(s, i) IN [ok |-> r.ok, kind |-> "string", val |-> r.val, next |-> r.next]
    ELSE LET e == DigitsEnd(s, i) IN
        [ok |-> e > i, kind |-> "number", val |-> Slice(s, i, e - 1), next |-> e]

RECURSIVE ParseMembers(_, _, _)
(* the members of an object from s[i] on, up to the closing brace that ends s *)
ParseMembers(s, i, acc) ==
    LET k == ParseString(s, i) IN
    IF ~k.ok \/ k.next > Len(s) \/ s[k.next] # ChColon THEN [ok |-> FALSE, fields |-> <<>>]
    ELSE LET v == ParseValue(s, k.next + 1)
             f == [name |-> k.val, kind |-> v.kind, val |-> v.val]
         IN  IF ~v.ok \/ v.next > Len(s) THEN [ok |-> FALSE, fields |-> <<>>]
             ELSE IF s[v.next] = ChRBrace THEN
                 IF v.next = Len(s) THEN [ok |-> TRUE, fields |-> Append(acc, f)]
                 ELSE [ok |-> FALSE, fields |-> <<>>]
             ELSE IF s[v.next] = ChComma THEN ParseMembers(s, v.next + 1, Append(acc, f))
             ELSE [ok |-> FALSE, fields |-> <<>>]

JSONParse(s) ==
    IF Len(s) < 2 \/ s[1] # ChLBrace THEN [ok |-> FALSE, fields |-> <<>>]
    ELSE IF Len(s) = 2 THEN [ok |-> s[2] = ChRBrace, fields |-> <<>>]
    ELSE ParseMembers(s, 2, <<>>)

(* the positions of the members called name; JSON.parse keeps the last one *)
FieldIndexes(fields, name) == {i \in 1..Len(fields) : fields[i].name = name}

HasField(fields, name) == FieldIndexes(fields, name) # {}

GetField(fields, name) ==
    fields[CHOOSE i \in FieldIndexes(fields, name) : \A j \in FieldIndexes(fields, name) : j <= i]

(***************************************************************************)
(* parseJWT: the client key out of the token's payload segment             *)
(***************************************************************************)
RECURSIVE Split(_, _)
(* String.prototype.split on one character: always at least one segment *)
Split(s, c) ==
    LET j == FindChar(s, 1, c) IN
    IF j = 0 THEN << s >> ELSE << Slice(s, 1, j - 1) >> \o Split(Slice(s, j + 1, Len(s)), c)

(* base64url to base64: '-' to '+', '_' to '/', right-padded with '=' to a multiple of 4 *)
FromBase64Url(seg) ==
    Flat([i \in 1..Len(seg) |-> IF seg[i] = ChMinus THEN ChPlus
                                ELSE IF seg[i] = ChUnderscore THEN ChSlash ELSE seg[i]])
        \o Fill((4 - (Len(seg) % 4)) % 4, ChEquals)

ClientKeyName == << 99, 108, 105, 101, 110, 116, 95, 107, 101, 121 >>

Failure(e) == [ok |-> FALSE, error |-> e, value |-> <<>>]
Success(v) == [ok |-> TRUE, error |-> "", value |-> v]

(* base64url of a byte string: base64 without padding, '+' as '-', '/' as '_' *)
ToBase64Url(bytes) ==
    LET e == Base64Encode(bytes)
        body == Slice(e, 1, Len(e) - PadCount(e))
    IN  Flat([i \in 1..Len(body) |-> IF body[i] = ChPlus THEN ChMinus
                                     ELSE IF body[i] = ChSlash THEN ChUnderscore ELSE body[i]])

(* mutant of parseJWT: segments beyond the third are ignored, and any      *)
(* client_key member is taken, whatever its type                           *)
parseJWT_Lenient(token) ==
    LET parts == Split(token, ChDot) IN
    IF Len(parts) < 3 THEN Failure("MalformedToken")
    ELSE LET b64 == FromBase64Url(parts[2]) IN
        IF ~Base64Valid(b64) THEN Failure("MalformedToken")
        ELSE LET json == JSONParse(Utf8Decode(Base64Decode(b64))) IN
            IF ~json.ok THEN Failure("MalformedToken")
            ELSE IF ~HasField(json.fields, ClientKeyName) THEN Failure("MissingClaim")
            ELSE LET claim == GetField(json.fields, ClientKeyName).val IN
                IF ~Base64Valid(claim) THEN Failure("InvalidEncoding")
                ELSE Success(Base64Decode(claim))

parseJWT(token) ==
    LET parts == Split(token, ChDot) IN
    IF Len(parts) # 3 THEN Failure("MalformedToken")
    ELSE LET b64 == FromBase64Url(parts[2]) IN
        IF ~Base64Valid(b64) THEN Failure("MalformedToken")
        ELSE LET json == JSONParse(Utf8Decode(Base64Decode(b64))) IN
            IF ~json.ok THEN Failure("MalformedToken")
            ELSE IF ~HasField(json.fields, ClientKeyName)
                    \/ GetField(json.fields, ClientKeyName).kind # "string"
                 THEN Failure("MissingClaim")
            ELSE LET claim == GetField(json.fields, ClientKeyName).val IN
                IF ~Base64Valid(claim) THEN Failure("InvalidEncoding")
                ELSE Success(Base64Decode(claim))

(***************************************************************************)
(* AES-GCM (crypto.subtle), 128-bit tag, no associated data.  The block    *)
(* cipher is abstracted to a keyed stream and the GHASH tag to a keyed     *)
(* checksum of nonce and ciphertext: what the callers rely on is kept,     *)
(* namely that decryption inverts encryption under the same key and nonce  *)
(* and recomputes and compares the tag before it releases any plaintext.   *)
(***************************************************************************)
KeyStreamByte(key, nonce, i) ==
    (key[((i - 1) % KeyLen) + 1] + 3 * nonce[((i - 1) % NonceLen) + 1] + 7 * i) % 256

AesGcmTag(key, nonce, ct) ==
    Flat([j \in 1..TagLen |->
        (j * Len(ct) + WeightedSum(ct, 1, 2, 2 * j + 1) + WeightedSum(nonce, 1, 2, 2 * j + 1)
            + WeightedSum(key, 1, 2 * j, 1)) % 256])

(* ciphertext with the tag appended *)
AesGcmEncrypt(key, nonce, pt) ==
    LET ct == Flat([i \in 1..Len(pt) |-> (pt[i] + KeyStreamByte(key, nonce, i)) % 256])
    IN  ct \o AesGcmTag(key, nonce, ct)

(* mutant of AesGcmDecrypt: the tag is cut off but not verified *)
AesGcmDecrypt_NoTagCheck(key, nonce, body) ==
    IF Len(body) < TagLen THEN [ok |-> FALSE, pt |-> <<>>]
    ELSE LET ct == Slice(body, 1, Len(body) - TagLen)
         IN  [ok |-> TRUE,
              pt |-> Flat([i \in 1..Len(ct) |-> (ct[i] + 256 - KeyStreamByte(key, nonce, i)) % 256])]

(* [ok, pt]: ok is the outcome of the tag verification *)
AesGcmDecrypt(key, nonce, body) ==
    IF Len(body) < TagLen THEN [ok |-> FALSE, pt |-> <<>>]
    ELSE LET ct == Slice(body, 1, Len(body) - TagLen)
             tag == Slice(body, Len(body) - TagLen + 1, Len(body))
         IN  IF tag # AesGcmTag(key, nonce, ct) THEN [ok |-> FALSE, pt |-> <<>>]
             ELSE [ok |-> TRUE,
                   pt |-> Flat([i \in 1..Len(ct) |-> (ct[i] + 256 - KeyStreamByte(key, nonce, i)) % 256])]

(***************************************************************************)
(* encryptSecret / decryptSecret.  A result records, besides its value or  *)
(* its error, the calls made to the platform cipher (ops).                 *)
(***************************************************************************)
CipherFailure(e, calls) == [ok |-> FALSE, error |-> e, value |-> <<>>, ops |-> calls]
CipherSuccess(v, calls) == [ok |-> TRUE, error |-> "", value |-> v, ops |-> calls]

(* mutant of encryptSecret: the nonce is appended instead of prepended *)
encryptSecret_NonceLast(plaintext, keyBytes, nonce) ==
    IF Len(keyBytes) # KeyLen THEN CipherFailure("InvalidKeyLength", <<>>)
    ELSE CipherSuccess(
            Base64Encode(AesGcmEncrypt(keyBytes, nonce, Utf8Encode(plaintext)) \o nonce),
            << "importKey", "encrypt" >>)

(* nonce: the 12 bytes the CSPRNG returns to this call *)
encryptSecret(plaintext, keyBytes, nonce) ==
    IF Len(keyBytes) # KeyLen THEN CipherFailure("InvalidKeyLength", <<>>)
    ELSE CipherSuccess(
            Base64Encode(nonce \o AesGcmEncrypt(keyBytes, nonce, Utf8Encode(plaintext))),
            << "importKey", "encrypt" >>)

(* the part of decryptSecret that follows the key-length check *)
DecryptChecked(ciphertextBase64, keyBytes) ==
    IF ~Base64Valid(ciphertextBase64) THEN CipherFailure("InvalidEncoding", <<>>)
    ELSE LET B == Base64Decode(ciphertextBase64) IN
        IF Len(B) < NonceLen THEN CipherFailure("TruncatedCiphertext", <<>>)
        ELSE LET nonce == Slice(B, 1, NonceLen)
                 body == Slice(B, NonceLen + 1, Len(B))
                 r == AesGcmDecrypt(keyBytes, nonce, body)
             IN  IF ~r.ok THEN CipherFailure("DecryptionFailed", << "importKey", "decrypt" >>)
                 ELSE CipherSuccess(Utf8Decode(r.pt), << "importKey", "decrypt" >>)

(* mutant of decryptSecret: the key length is left to the key import to reject *)
decryptSecret_ImportRejects(ciphertextBase64, keyBytes) ==
    IF Len(keyBytes) # KeyLen THEN CipherFailure("InvalidKeyLength", << "importKey" >>)
    ELSE DecryptChecked(ciphertextBase64, keyBytes)

(* mutant of decryptSecret: no length check, a short buffer goes to the cipher *)
decryptSecret_NoLengthCheck(ciphertextBase64, keyBytes) ==
    IF Len(keyBytes) # KeyLen THEN CipherFailure("InvalidKeyLength", <<>>)
    ELSE IF ~Base64Valid(ciphertextBase64) THEN CipherFailure("InvalidEncoding", <<>>)
    ELSE IF Len(Base64Decode(ciphertextBase64)) < NonceLen
         THEN CipherFailure("DecryptionFailed", << "importKey", "decrypt" >>)
    ELSE DecryptChecked(ciphertextBase64, keyBytes)

decryptSecret(ciphertextBase64, keyBytes) ==
    IF Len(keyBytes) # KeyLen THEN CipherFailure("InvalidKeyLength", <<>>)
    ELSE DecryptChecked(ciphertextBase64, keyBytes)

(***************************************************************************)
(* State                                                                   *)
(***************************************************************************)
VARIABLES
    cipher,         \* one use of the cipher: its inputs, the ciphertext in transit, the results
    jwt,            \* one use of parseJWT: the token and the result
    localStorage,   \* the browser's localStorage: token, username, is_admin, role
    page,           \* the route on display: "login" (AuthPage) or "secrets" (SecretManagement)
    reloading,      \* a document load that was requested and has not happened yet
    login,          \* the login request of the Login form
    ops,            \* the running calls of SecretManagement's async handlers
    ui,             \* the component state of the mounted SecretManagement
    backend,        \* the secrets the backend holds, by key name
    last,           \* history: the step taken last, with the handler call it ended
    clicks,         \* history: the number of steps the user has started
    answered,       \* history: the answer of the backend this step received, if any
    route,          \* one navigation: the location, and the element the router renders
    signup,         \* the Login and Register forms, their throttles and the clock
    util,           \* one call of a function of utils/env and utils/security
    batch,          \* one call of secretsAPI.storeSecretsBatch
    worker,         \* the mounted WorkerStatus page, its requests and its timer
    provider        \* the module state of the Polygon provider and its callers

appVars == << localStorage, page, reloading, login, ops, ui, backend, last, clicks, answered >>

moreVars == << batch, worker, provider >>

sideVars == << route, signup, util, batch, worker, provider >>

vars == << cipher, jwt, localStorage, page, reloading, login, ops, ui, backend, last, clicks, answered,
           route, signup, util,
          batch, worker, provider >>

(***************************************************************************)
(* Bounds and input sets                                                   *)
(***************************************************************************)
MaxPlainLen == 2        \* plaintexts have at most this many code points
MaxSegments == 4        \* tokens have at most this many dot-separated segments

(* code points of one, three and four UTF-8 bytes: 'k', U+4E2D, U+1F511 *)
CodePoints == {107, 20013, 128273}

RECURSIVE SeqsUpTo(_, _)
SeqsUpTo(S, n) ==
    IF n = 0 THEN {<<>>}
    ELSE LET shorter == SeqsUpTo(S, n - 1)
         IN  shorter \cup {Append(q, x) : q \in {t \in shorter : Len(t) = n - 1}, x \in S}

Plaintexts == SeqsUpTo(CodePoints, MaxPlainLen)

(* the keys of the end-to-end scenario (0x01.., 0x02..); a 16-byte and a 31-byte key *)
ValidKeys == {Fill(KeyLen, 1), Fill(KeyLen, 2)}
BadKeys == {Fill(16, 1), Fill(KeyLen - 1, 1)}
Keys == ValidKeys \cup BadKeys

(* values the CSPRNG may return *)
Nonces == {Flat([i \in 1..NonceLen |-> 20 * i + 3])}

(* the amounts by which a byte in transit is changed *)
TamperDeltas == {1, 128}

NoResult == CipherFailure("", <<>>)

(* JSON texts of token payloads: {"client_key":"<base64 of key>"} and others *)
JsonOfKey(key) ==
    << ChLBrace, ChQuote >> \o ClientKeyName \o << ChQuote, ChColon, ChQuote >>
        \o Base64Encode(key) \o << ChQuote, ChRBrace >>

(* {"sub":"u"}: no client_key member *)
JsonNoClaim == << ChLBrace, ChQuote, 115, 117, 98, ChQuote, ChColon, ChQuote, 117, ChQuote, ChRBrace >>

(* {"sub":"u","client_key":5}: a client_key member that is no string *)
JsonNumberClaim ==
    << ChLBrace, ChQuote, 115, 117, 98, ChQuote, ChColon, ChQuote, 117, ChQuote, ChComma, ChQuote >>
        \o ClientKeyName \o << ChQuote, ChColon, 53, ChRBrace >>

(* the segments tokens are built from; class is what the segment is by construction *)
SegPool == <<
    [class |-> "header",  key |-> <<>>, text |-> << 101, 121, 74 >>],
    [class |-> "key",     key |-> Fill(KeyLen, 0), text |-> ToBase64Url(JsonOfKey(Fill(KeyLen, 0)))],
    [class |-> "key",     key |-> Fill(16, 1), text |-> ToBase64Url(JsonOfKey(Fill(16, 1)))],
    [class |-> "noclaim", key |-> <<>>, text |-> ToBase64Url(JsonNoClaim)],
    [class |-> "noclaim", key |-> <<>>, text |-> ToBase64Url(JsonNumberClaim)],
    [class |-> "notjson", key |-> <<>>, text |-> ToBase64Url(<< 110, 111 >>)],
    [class |-> "notjson", key |-> <<>>, text |-> <<>>] >>

RECURSIVE JoinSegments(_)
(* the segments' texts joined with '.' *)
JoinSegments(segs) ==
    IF Len(segs) = 0 THEN <<>>
    ELSE IF Len(segs) = 1 THEN SegPool[segs[1]].text
    ELSE SegPool[segs[1]].text \o << ChDot >> \o JoinSegments(Tail(segs))

NoJwt == [phase |-> "idle", segs |-> <<>>, token |-> <<>>, result |-> Failure("")]

(***************************************************************************)
(* The application's data                                                  *)
(***************************************************************************)
MaxOps == 2             \* handler calls of SecretManagement running at the same time
MaxClicks == 3          \* submits and clicks of the user in one run

(* header.payload.signature with the given payload text *)
MakeToken(payload) == << 101, 121, 74 >> \o << ChDot >> \o ToBase64Url(payload) \o << ChDot >> \o << 115, 105, 103 >>

TokenA == MakeToken(JsonOfKey(Fill(KeyLen, 1)))
TokenB == MakeToken(JsonOfKey(Fill(KeyLen, 2)))
TokenNoClaim == MakeToken(JsonNoClaim)

(* the tokens a login response may carry; the last one breaks the backend's contract *)
LoginTokens == {TokenA, TokenB, TokenNoClaim}

EmptyStorage == [token |-> <<>>, username |-> <<>>, is_admin |-> <<>>, role |-> <<>>]

(* Secret / StoreSecretRequest: an absent member is empty (signature_type: 0) *)
EmptySecret ==
    [key_name |-> <<>>, value |-> <<>>, private_key |-> <<>>, api_key |-> <<>>,
     api_secret |-> <<>>, api_passphrase |-> <<>>, server_name |-> <<>>, ip |-> <<>>,
     proxy_address |-> <<>>, wallet_type |-> <<>>, signature_type |-> 0, active |-> TRUE]

(* DecryptedSecretData; shown is FALSE for null *)
NoDecrypted ==
    [shown |-> FALSE, private_key |-> <<>>, api_key |-> <<>>, api_secret |-> <<>>,
     api_passphrase |-> <<>>, server_name |-> <<>>, ip |-> <<>>, proxy_address |-> <<>>,
     wallet_type |-> <<>>, signature_type |-> 0]

(* the messages of SecretManagement.tsx, by the line that sets them *)
MsgNoBatchInput == "enter secret data"                  \* line 74
MsgNoToken == "login token not found"                   \* lines 85, 201, 271
MsgNoValidSecrets == "no valid secret data"             \* line 156
MsgBatchPartial == "some uploads failed"                \* lines 163-168
MsgBatchSuccess == "secrets uploaded"                   \* line 170
MsgKeyNameEmpty == "key name must not be empty"         \* line 185
MsgNeedOneField == "one secret field is required"       \* line 190
MsgUploadSuccess == "secret uploaded"                   \* line 234
MsgDecryptSuccess == "decrypt success"                  \* line 321
MsgBadFormat == "format error"                          \* line 139

InitialUi ==
    [error |-> "", success |-> "", selectedKeyName |-> <<>>, decryptedData |-> NoDecrypted,
     decrypting |-> FALSE, submitting |-> FALSE, uploading |-> FALSE, loading |-> FALSE,
     secrets |-> <<>>]

(* a call of an async handler: its locals, the request it waits for, and  *)
(* (history) the cipher calls it made and the message it ended with        *)
NewOp(kind) ==
    [kind |-> kind, pc |-> "start", detached |-> FALSE,
     auth |-> <<>>,             \* the Authorization token of the request in flight
     keyName |-> <<>>, token |-> <<>>, clientKey |-> <<>>,
     form |-> EmptySecret, batchInput |-> <<>>,
     request |-> <<>>,          \* the StoreSecretRequests built, in order
     raws |-> <<>>,             \* history: the raw inputs they were built from
     idx |-> 0, success |-> <<>>, failed |-> <<>>,
     secret |-> EmptySecret, decrypted |-> NoDecrypted,
     calls |-> <<>>,            \* history: the encryptSecret / decryptSecret calls made
     shown |-> ""]              \* history: "success" or "error", what the call ended with

FreeOp == NewOp("none")

(* no request sent / a request sent with the given Authorization token *)
NoSend == [made |-> FALSE, auth |-> <<>>]
Send(auth) == [made |-> TRUE, auth |-> auth]

(* history: the last step taken, the handler call it ended, the request it sent *)
NoLast == [event |-> "init", op |-> FreeOp, sent |-> NoSend]

KeyNameNew == << 107, 49 >>         \* 'k1'
KeyNameOld == << 111, 49 >>         \* 'o1'
KeyNameOldJson == << 111, 50 >>     \* 'o2'

(***************************************************************************)
(* JSON.parse and the string operations of SecretManagement.tsx            *)
(***************************************************************************)
ChLBracket == 91
ChRBracket == 93
ChNewline == 10
ChSpace == 32

NoMembers(i) == [ok |-> FALSE, fields |-> <<>>, next |-> i]

RECURSIVE ParseMembersAt(_, _, _)

(* after the value v of the member called k.val *)
MembersAfterValue(s, i, acc, k, v) ==
    IF ~v.ok \/ v.next > Len(s) THEN NoMembers(i)
    ELSE IF s[v.next] = ChRBrace
    THEN [ok |-> TRUE, fields |-> Append(acc, [name |-> k.val, kind |-> v.kind, val |-> v.val]),
          next |-> v.next + 1]
    ELSE IF s[v.next] = ChComma
    THEN ParseMembersAt(s, v.next + 1, Append(acc, [name |-> k.val, kind |-> v.kind, val |-> v.val]))
    ELSE NoMembers(i)

(* after the name k of a member *)
MembersAfterName(s, i, acc, k) ==
    IF ~k.ok \/ k.next > Len(s) \/ s[k.next] # ChColon THEN NoMembers(i)
    ELSE MembersAfterValue(s, i, acc, k, ParseValue(s, k.next + 1))

(* the members of an object from s[i] on: [ok, fields, next], next past the brace *)
ParseMembersAt(s, i, acc) == MembersAfterName(s, i, acc, ParseString(s, i))

(* an object starting at s[i] *)
ParseObjectAt(s, i) ==
    IF i + 1 > Len(s) \/ s[i] # ChLBrace THEN NoMembers(i)
    ELSE IF s[i + 1] = ChRBrace THEN [ok |-> TRUE, fields |-> <<>>, next |-> i + 2]
    ELSE ParseMembersAt(s, i + 1, <<>>)

NoItems == [ok |-> FALSE, items |-> <<>>]

RECURSIVE ParseItems(_, _, _)

(* after the object o of an array *)
ItemsAfterObject(s, acc, o) ==
    IF ~o.ok \/ o.next > Len(s) THEN NoItems
    ELSE IF s[o.next] = ChRBracket
    THEN (IF o.next = Len(s) THEN [ok |-> TRUE, items |-> Append(acc, o.fields)] ELSE NoItems)
    ELSE IF s[o.next] = ChComma THEN ParseItems(s, o.next + 1, Append(acc, o.fields))
    ELSE NoItems

(* the objects of an array from s[i] on, up to the bracket that ends s *)
ParseItems(s, i, acc) == ItemsAfterObject(s, acc, ParseObjectAt(s, i))

NotJSON == [ok |-> FALSE, kind |-> "", fields |-> <<>>, items |-> <<>>]

ArrayOf(a) ==
    IF a.ok THEN [ok |-> TRUE, kind |-> "array", fields |-> <<>>, items |-> a.items] ELSE NotJSON

ObjectOf(s, o) ==
    IF o.ok /\ o.next = Len(s) + 1
    THEN [ok |-> TRUE, kind |-> "object", fields |-> o.fields, items |-> <<>>]
    ELSE NotJSON

StringOf(s, r) ==
    IF r.ok /\ r.next = Len(s) + 1
    THEN [ok |-> TRUE, kind |-> "string", fields |-> <<>>, items |-> <<>>]
    ELSE NotJSON

(* JSON.parse of a text without white space: an object or an array of     *)
(* objects with string and number members, a string, or a number           *)
JSONParseAny(s) ==
    IF s = <<>> THEN NotJSON
    ELSE IF s[1] = ChLBracket THEN
        IF Len(s) = 2 /\ s[2] = ChRBracket
        THEN [ok |-> TRUE, kind |-> "array", fields |-> <<>>, items |-> <<>>]
        ELSE ArrayOf(ParseItems(s, 2, <<>>))
    ELSE IF s[1] = ChLBrace THEN ObjectOf(s, ParseObjectAt(s, 1))
    ELSE IF s[1] = ChQuote THEN StringOf(s, ParseString(s, 1))
    ELSE IF DigitsEnd(s, 1) = Len(s) + 1
        THEN [ok |-> TRUE, kind |-> "number", fields |-> <<>>, items |-> <<>>]
        ELSE NotJSON

IsBlank(c) == c = ChSpace \/ c = ChNewline

RECURSIVE TrimStart(_)
TrimStart(s) == IF s # <<>> /\ IsBlank(s[1]) THEN TrimStart(Tail(s)) ELSE s

RECURSIVE TrimEnd(_)
TrimEnd(s) == IF s # <<>> /\ IsBlank(s[Len(s)]) THEN TrimEnd(SubSeq(s, 1, Len(s) - 1)) ELSE s

(* String.prototype.trim *)
Trim(s) == TrimEnd(TrimStart(s))

(* a member's value as the handlers use it: absent, '' and 0 are falsy *)
Member(fields, name) ==
    IF ~HasField(fields, name) THEN <<>>
    ELSE LET f == GetField(fields, name) IN
        IF f.kind = "number" /\ \A i \in 1..Len(f.val) : f.val[i] = 48 THEN <<>> ELSE f.val

(* a || b *)
Either(a, b) == IF a # <<>> THEN a ELSE b

Name_key_name == << 107, 101, 121, 95, 110, 97, 109, 101 >>
Name_keyName == << 107, 101, 121, 78, 97, 109, 101 >>
Name_private_key == << 112, 114, 105, 118, 97, 116, 101, 95, 107, 101, 121 >>
Name_privateKey == << 112, 114, 105, 118, 97, 116, 101, 75, 101, 121 >>
Name_api_secret == << 97, 112, 105, 95, 115, 101, 99, 114, 101, 116 >>
Name_apiSecret == << 97, 112, 105, 83, 101, 99, 114, 101, 116 >>
Name_api_key == << 97, 112, 105, 95, 107, 101, 121 >>
Name_apiKey == << 97, 112, 105, 75, 101, 121 >>
Name_api_passphrase == << 97, 112, 105, 95, 112, 97, 115, 115, 112, 104, 114, 97, 115, 101 >>
Name_apiPassphrase == << 97, 112, 105, 80, 97, 115, 115, 112, 104, 114, 97, 115, 101 >>
Name_server_name == << 115, 101, 114, 118, 101, 114, 95, 110, 97, 109, 101 >>
Name_serverName == << 115, 101, 114, 118, 101, 114, 78, 97, 109, 101 >>
Name_ip == << 105, 112 >>
Name_IP == << 73, 80 >>
Name_proxy_address == << 112, 114, 111, 120, 121, 95, 97, 100, 100, 114, 101, 115, 115 >>
Name_proxyAddress == << 112, 114, 111, 120, 121, 65, 100, 100, 114, 101, 115, 115 >>
Name_wallet_type == << 119, 97, 108, 108, 101, 116, 95, 116, 121, 112, 101 >>
Name_walletType == << 119, 97, 108, 108, 101, 116, 84, 121, 112, 101 >>

(***************************************************************************)
(* parseJWT, encryptSecret and decryptSecret on the application's inputs,  *)
(* computed once                                                           *)
(***************************************************************************)
TheNonce == CHOOSE n \in Nonces : TRUE

(* plaintexts of the application: 'p1', 'a1', 's1', 'w1' *)
RawPrivateKey == << 112, 49 >>
RawApiKey == << 97, 49 >>
RawApiSecret == << 115, 49 >>
RawPassphrase == << 119, 49 >>

(* {"api_key":"a1","private_key":"p1"}: a legacy value that bundles several fields *)
LegacyBundle ==
    << ChLBrace, ChQuote, 97, 112, 105, 95, 107, 101, 121, ChQuote, ChColon, ChQuote >> \o RawApiKey
        \o << ChQuote, ChComma, ChQuote, 112, 114, 105, 118, 97, 116, 101, 95, 107, 101, 121,
              ChQuote, ChColon, ChQuote >> \o RawPrivateKey \o << ChQuote, ChRBrace >>

KnownTokens == LoginTokens
ParsedTokens == [t \in KnownTokens |-> parseJWT(t)] @@ <<>>
ParseToken(token) == IF token \in KnownTokens THEN ParsedTokens[token] ELSE parseJWT(token)

KnownPlaintexts == {RawPrivateKey, RawApiSecret, LegacyBundle, << ChQuote, 107, 49, ChQuote, ChRBrace >>}
Encrypted == [p \in KnownPlaintexts, k \in ValidKeys, n \in Nonces |-> encryptSecret(p, k, n)] @@ <<>>
Encrypt(plaintext, key, nonce) ==
    IF plaintext \in KnownPlaintexts /\ key \in ValidKeys /\ nonce \in Nonces
    THEN Encrypted[plaintext, key, nonce]
    ELSE encryptSecret(plaintext, key, nonce)

KnownCiphertexts == {Encrypted[p, k, n].value : p \in KnownPlaintexts, k \in ValidKeys, n \in Nonces}
Decrypted_ == [c \in KnownCiphertexts, k \in ValidKeys |-> decryptSecret(c, k)] @@ <<>>
Decrypt(ciphertext, key) ==
    IF ciphertext \in KnownCiphertexts /\ key \in ValidKeys
    THEN Decrypted_[ciphertext, key]
    ELSE decryptSecret(ciphertext, key)

(***************************************************************************)
(* The field handling of the upload and read-back handlers                 *)
(***************************************************************************)
(* history record of one encryptSecret / decryptSecret call *)
CallOf(fn, field, input, key, r) ==
    [fn |-> fn, field |-> field, input |-> input, key |-> key, ok |-> r.ok, out |-> r.value]

(* mutant of EncryptedFields: api_secret is sent as it was typed *)
EncryptedFields_PlainSecret(raw, base, key, pk, as) ==
    [ok |-> raw.private_key # <<>> => pk.ok,
     error |-> IF raw.private_key # <<>> /\ ~pk.ok THEN pk.error ELSE "",
     secret |-> [base EXCEPT !.private_key = IF raw.private_key # <<>> THEN pk.value ELSE <<>>,
                             !.api_secret = raw.api_secret,
                             !.api_key = raw.api_key,
                             !.api_passphrase = raw.api_passphrase],
     calls |-> IF raw.private_key # <<>>
               THEN << CallOf("encryptSecret", "private_key", raw.private_key, key, pk) >>
               ELSE <<>>]

(* EncryptFields once pk and as, the results of its encryptSecret calls,  *)
(* are there                                                               *)
EncryptedFields(raw, base, key, pk, as) ==
    LET needPk == raw.private_key # <<>>
        needAs == raw.api_secret # <<>>
        pkFails == needPk /\ ~pk.ok
    IN  [ok |-> ~pkFails /\ (needAs => as.ok),
         error |-> IF pkFails THEN pk.error ELSE IF needAs /\ ~as.ok THEN as.error ELSE "",
         secret |-> [base EXCEPT !.private_key = IF needPk THEN pk.value ELSE <<>>,
                                 !.api_secret = IF needAs THEN as.value ELSE <<>>,
                                 !.api_key = raw.api_key,
                                 !.api_passphrase = raw.api_passphrase],
         calls |-> (IF needPk THEN << CallOf("encryptSecret", "private_key", raw.private_key, key, pk) >>
                    ELSE <<>>)
                   \o (IF needAs /\ ~pkFails
                       THEN << CallOf("encryptSecret", "api_secret", raw.api_secret, key, as) >>
                       ELSE <<>>)]

(* private_key and api_secret of raw go through encryptSecret, api_key and *)
(* api_passphrase are copied; the first failing call throws                *)
EncryptFields(raw, base, key, nonce) ==
    EncryptedFields(raw, base, key, Encrypt(raw.private_key, key, nonce),
                    Encrypt(raw.api_secret, key, nonce))

(* x || 1 *)
SignatureOr1(x) == IF x # 0 THEN x ELSE 1

(* mutant of FormRequest: the key of the first login is kept and used *)
FormRequest_CachedKey(form, key, nonce) ==
    EncryptFields(form,
        [EmptySecret EXCEPT !.key_name = form.key_name, !.active = form.active,
            !.server_name = form.server_name, !.ip = form.ip,
            !.proxy_address = form.proxy_address, !.wallet_type = form.wallet_type,
            !.signature_type = SignatureOr1(form.signature_type)],
        Fill(KeyLen, 1), nonce)

(* handleSubmitSecret: secretToUpload out of formData *)
FormRequest(form, key, nonce) ==
    EncryptFields(form,
        [EmptySecret EXCEPT !.key_name = form.key_name, !.active = form.active,
            !.server_name = form.server_name, !.ip = form.ip,
            !.proxy_address = form.proxy_address, !.wallet_type = form.wallet_type,
            !.signature_type = SignatureOr1(form.signature_type)],
        key, nonce)

(* handleBatchUpload, JSON array: the raw values of one item *)
ItemRaw(item) ==
    [EmptySecret EXCEPT
        !.key_name = Either(Member(item, Name_key_name), Member(item, Name_keyName)),
        !.private_key = Either(Member(item, Name_private_key), Member(item, Name_privateKey)),
        !.api_secret = Either(Member(item, Name_api_secret), Member(item, Name_apiSecret)),
        !.api_key = Either(Member(item, Name_api_key), Member(item, Name_apiKey)),
        !.api_passphrase = Either(Member(item, Name_api_passphrase), Member(item, Name_apiPassphrase)),
        !.server_name = Either(Member(item, Name_server_name), Member(item, Name_serverName)),
        !.ip = Either(Member(item, Name_ip), Member(item, Name_IP)),
        !.proxy_address = Either(Member(item, Name_proxy_address), Member(item, Name_proxyAddress)),
        !.wallet_type = Either(Member(item, Name_wallet_type), Member(item, Name_walletType)),
        !.signature_type = 1]

(* what building a list of requests gives: thrown or not, the requests,   *)
(* the raw inputs they came from, the cipher calls made                    *)
Built(ok, error, request, raws, calls) ==
    [ok |-> ok, error |-> error, request |-> request, raws |-> raws, calls |-> calls]

(* acc with the request e built from raw, or the throw of e *)
WithRequest(acc, raw, e) ==
    IF ~e.ok THEN Built(FALSE, e.error, <<>>, <<>>, acc.calls \o e.calls)
    ELSE Built(TRUE, "", Append(acc.request, e.secret), Append(acc.raws, raw), acc.calls \o e.calls)

(* the request of one item of the JSON array *)
ItemRequest(raw, key, nonce) ==
    EncryptFields(raw, [raw EXCEPT !.private_key = <<>>, !.api_secret = <<>>,
                                   !.api_key = <<>>, !.api_passphrase = <<>>], key, nonce)

RECURSIVE ItemRequests(_, _, _, _, _)
(* jsonData.map(async item => ...) *)
ItemRequests(items, i, key, nonce, acc) ==
    IF i > Len(items) \/ ~acc.ok THEN acc
    ELSE ItemRequests(items, i + 1, key, nonce,
            WithRequest(acc, ItemRaw(items[i]), ItemRequest(ItemRaw(items[i]), key, nonce)))

RECURSIVE TrimAll(_)
TrimAll(parts) == IF parts = <<>> THEN <<>> ELSE << Trim(Head(parts)) >> \o TrimAll(Tail(parts))

RECURSIVE NonBlank(_)
(* filter(line => line.trim()) *)
NonBlank(lines) ==
    IF lines = <<>> THEN <<>>
    ELSE (IF Trim(Head(lines)) # <<>> THEN << Head(lines) >> ELSE <<>>) \o NonBlank(Tail(lines))

(* the raw values of one line, split at ':' *)
LineRaw(parts) == [EmptySecret EXCEPT !.key_name = parts[1], !.private_key = parts[2]]

(* acc with the request of the line that was split into parts *)
WithLine(acc, parts, key, nonce) ==
    IF Len(parts) < 2 THEN Built(FALSE, MsgBadFormat, <<>>, <<>>, acc.calls)
    ELSE WithRequest(acc, LineRaw(parts),
            EncryptFields(LineRaw(parts), [EmptySecret EXCEPT !.key_name = parts[1]], key, nonce))

RECURSIVE LineRequests(_, _, _, _, _)
(* the legacy format, one 'key_name:value' per line *)
LineRequests(lines, i, key, nonce, acc) ==
    IF i > Len(lines) \/ ~acc.ok THEN acc
    ELSE LineRequests(lines, i + 1, key, nonce,
            WithLine(acc, TrimAll(Split(lines[i], ChColon)), key, nonce))

(* the catch of the JSON path: what it threw is dropped, the lines are read *)
OrLines(batchInput, key, nonce, fromJson) ==
    IF fromJson.ok THEN fromJson
    ELSE LineRequests(NonBlank(Split(Trim(batchInput), ChNewline)), 1, key, nonce,
                      Built(TRUE, "", <<>>, <<>>, fromJson.calls))

FromJson(jsonData, key, nonce) ==
    IF jsonData.ok /\ jsonData.kind = "array"
    THEN ItemRequests(jsonData.items, 1, key, nonce, Built(TRUE, "", <<>>, <<>>, <<>>))
    ELSE Built(FALSE, "not an array", <<>>, <<>>, <<>>)

(* handleBatchUpload: secretsToUpload out of batchInput *)
BatchRequests(batchInput, key, nonce) ==
    OrLines(batchInput, key, nonce, FromJson(JSONParseAny(batchInput), key, nonce))

(* Object.assign(decrypted, parsed): every member of parsed replaces the   *)
(* field of the same name                                                  *)
Assign(d, fields) ==
    LET Pick(name, old) == IF HasField(fields, name) THEN GetField(fields, name).val ELSE old
    IN  [d EXCEPT !.private_key = Pick(Name_private_key, @),
                  !.api_key = Pick(Name_api_key, @),
                  !.api_secret = Pick(Name_api_secret, @),
                  !.api_passphrase = Pick(Name_api_passphrase, @)]

(* the fields after the legacy value: nothing when its decryption failed, *)
(* the members of a JSON object, the whole text as private_key otherwise   *)
WithValue(d1, needVal, val, parsed) ==
    IF ~needVal \/ ~val.ok THEN d1
    ELSE IF parsed.ok THEN (IF parsed.kind = "object" THEN Assign(d1, parsed.fields) ELSE d1)
    ELSE [d1 EXCEPT !.private_key = val.value]

(* DecryptFields once pk, as and val, the results of its decryptSecret    *)
(* calls, and parsed, the result of JSON.parse, are there                  *)
DecryptedFields(secret, key, pk, as, val, parsed) ==
    LET needPk == secret.private_key # <<>>
        needAs == secret.api_secret # <<>>
        pkFails == needPk /\ ~pk.ok
        asFails == ~pkFails /\ needAs /\ ~as.ok
        d1 == [NoDecrypted EXCEPT !.private_key = IF needPk THEN pk.value ELSE <<>>,
                                  !.api_secret = IF needAs THEN as.value ELSE <<>>,
                                  !.api_key = secret.api_key,
                                  !.api_passphrase = secret.api_passphrase]
        needVal == ~pkFails /\ ~asFails /\ secret.value # <<>> /\ d1.private_key = <<>>
    IN  [ok |-> ~pkFails /\ ~asFails,
         error |-> IF pkFails THEN pk.error ELSE IF asFails THEN as.error ELSE "",
         decrypted |-> [WithValue(d1, needVal, val, parsed) EXCEPT
                            !.shown = TRUE, !.server_name = secret.server_name,
                            !.ip = secret.ip, !.proxy_address = secret.proxy_address,
                            !.wallet_type = secret.wallet_type,
                            !.signature_type = SignatureOr1(secret.signature_type)],
         calls |-> (IF needPk THEN << CallOf("decryptSecret", "private_key", secret.private_key, key, pk) >>
                    ELSE <<>>)
                   \o (IF needAs /\ ~pkFails
                       THEN << CallOf("decryptSecret", "api_secret", secret.api_secret, key, as) >>
                       ELSE <<>>)
                   \o (IF needVal THEN << CallOf("decryptSecret", "value", secret.value, key, val) >>
                       ELSE <<>>)]

(* handleGetAndDecrypt from 'const decrypted = {}' to the last field: a   *)
(* failing call on private_key or api_secret throws, a failing call on the *)
(* legacy value is caught and ignored                                      *)
DecryptFields(secret, key) ==
    DecryptedFields(secret, key, Decrypt(secret.private_key, key), Decrypt(secret.api_secret, key),
                    Decrypt(secret.value, key), JSONParseAny(Decrypt(secret.value, key).value))

(***************************************************************************)
(* What the user types and what the backend answers                        *)
(***************************************************************************)
KeyNameSecond == << 107, 50 >>        \* 'k2'

(* formData: every secret field filled / only the plaintext fields / none *)
FormAll ==
    [EmptySecret EXCEPT !.key_name = KeyNameNew, !.private_key = RawPrivateKey,
        !.api_key = RawApiKey, !.api_secret = RawApiSecret, !.api_passphrase = RawPassphrase,
        !.signature_type = 1]
FormPlain ==
    [EmptySecret EXCEPT !.key_name = KeyNameSecond, !.api_key = RawApiKey,
        !.api_passphrase = RawPassphrase, !.signature_type = 1]
FormNoField == [EmptySecret EXCEPT !.key_name = KeyNameNew, !.signature_type = 1]
Forms == {FormAll, FormPlain, FormNoField}

(* batchInput: a JSON array, two legacy lines, a line without a colon, a   *)
(* JSON object that is not an array                                        *)
BatchJson == << 91, 123, 34, 107, 101, 121, 95, 110, 97, 109, 101, 34, 58, 34, 107, 49, 34, 44, 34, 112, 114, 105, 118, 97, 116, 101, 95, 107, 101, 121, 34, 58, 34, 112, 49, 34, 44, 34, 97, 112, 105, 95, 107, 101, 121, 34, 58, 34, 97, 49, 34, 44, 34, 97, 112, 105, 95, 115, 101, 99, 114, 101, 116, 34, 58, 34, 115, 49, 34, 44, 34, 97, 112, 105, 95, 112, 97, 115, 115, 112, 104, 114, 97, 115, 101, 34, 58, 34, 119, 49, 34, 125, 93 >>
BatchLines == << 107, 49, 58, 112, 49, 10, 32, 107, 50, 58, 115, 49, 10 >>
BatchNoColon == << 107, 49 >>
BatchObject == << 123, 34, 107, 101, 121, 95, 110, 97, 109, 101, 34, 58, 34, 107, 49, 34, 125 >>
BatchInputs == {BatchJson, BatchLines, BatchNoColon, BatchObject}

(* the statuses of a failed request *)
Failures == {"401", "500"}

(* err.response?.data?.error || err.message *)
HttpError(status) == IF status = "401" THEN "http 401" ELSE "http 500"

KeyNamesOf(S) == {b.key_name : b \in S}

RECURSIVE ListOf(_)
(* the key names of a listSecrets response, in the backend's order *)
ListOf(S) ==
    IF S = {} THEN <<>>
    ELSE LET x == CHOOSE y \in S : \A z \in S : Len(y) < Len(z) \/ (Len(y) = Len(z) /\ WeightedSum(y, 1, 7, 0) <= WeightedSum(z, 1, 7, 0))
         IN  << x >> \o ListOf(S \ {x})

(* POST /api/v1/secrets: the secret of that name is created or replaced *)
Store(S, secret) == {b \in S : b.key_name # secret.key_name} \cup {secret}

RECURSIVE StoreAll(_, _, _)
StoreAll(S, request, idxs) ==
    IF idxs = <<>> THEN S ELSE StoreAll(Store(S, request[Head(idxs)]), request, Tail(idxs))

Lookup(S, keyName) == CHOOSE b \in S : b.key_name = keyName

(* what the backend holds at the start: two secrets in the legacy format,  *)
(* stored by a client whose key is the one of TokenA                       *)
InitialBackend ==
    { [EmptySecret EXCEPT !.key_name = KeyNameOld,
            !.value = encryptSecret(RawPrivateKey, Fill(KeyLen, 1), TheNonce).value],
      [EmptySecret EXCEPT !.key_name = KeyNameOldJson,
            !.value = encryptSecret(LegacyBundle, Fill(KeyLen, 1), TheNonce).value] }

(* nothing navigated, no form submitted, no utility called *)
NoRoute == [phase |-> "idle"]
NoSignup == [phase |-> "idle"]
NoUtil == [phase |-> "idle"]
NoBatch == [phase |-> "idle"]
NoWorker == [phase |-> "idle"]
NoProvider == [phase |-> "idle"]

MoreStart == batch = NoBatch /\ worker = NoWorker /\ provider = NoProvider

SideStart == route = NoRoute /\ signup = NoSignup /\ util = NoUtil /\ MoreStart

AppStart ==
    /\ localStorage = EmptyStorage
    /\ page = "login"
    /\ reloading = "none"
    /\ login = [pending |-> FALSE, auth |-> <<>>]
    /\ ops = [i \in 1..MaxOps |-> FreeOp]
    /\ ui = InitialUi
    /\ backend = InitialBackend
    /\ last = NoLast
    /\ clicks = 0
    /\ answered = ""


(***************************************************************************)
(* The cipher used once: encrypt, an optional alteration in transit,       *)
(* decrypt                                                                 *)
(***************************************************************************)
CipherInit ==
    /\ \E k \in Keys, p \in Plaintexts, n \in Nonces :
        cipher = [phase |-> "init", key |-> k, plaintext |-> p, nonce |-> n,
                  enc |-> NoResult, ciphertext |-> <<>>, altered |-> "none",
                  dkey |-> <<>>, result |-> NoResult]
    /\ jwt = NoJwt
    /\ AppStart
    /\ SideStart

CipherEncrypt ==
    /\ cipher.phase = "init"
    /\ LET r == encryptSecret(cipher.plaintext, cipher.key, cipher.nonce)
       IN  cipher' = [cipher EXCEPT !.phase = "encrypted", !.enc = r, !.ciphertext = r.value]
    /\ UNCHANGED << jwt, appVars, sideVars >>

InTransit == cipher.phase = "encrypted" /\ cipher.enc.ok /\ cipher.altered = "none"

(* one byte of the decoded buffer is changed *)
CipherTamperByte ==
    /\ InTransit
    /\ LET B == Base64Decode(cipher.ciphertext) IN
        \E i \in 1..Len(B), d \in TamperDeltas :
            cipher' = [cipher EXCEPT
                !.ciphertext = Base64Encode([B EXCEPT ![i] = (B[i] + d) % 256]),
                !.altered = IF i <= NonceLen THEN "nonce" ELSE "body"]
    /\ UNCHANGED << jwt, appVars, sideVars >>

(* the decoded buffer loses its end *)
CipherTruncate ==
    /\ InTransit
    /\ LET B == Base64Decode(cipher.ciphertext) IN
        \E n \in 0..(Len(B) - 1) :
            cipher' = [cipher EXCEPT
                !.ciphertext = Base64Encode(Slice(B, 1, n)),
                !.altered = IF n < NonceLen THEN "truncated" ELSE "body"]
    /\ UNCHANGED << jwt, appVars, sideVars >>

(* the string loses its last character, or gains one outside the alphabet *)
CipherGarble ==
    /\ InTransit
    /\ \E c \in {cipher.ciphertext \o << 42 >>, Slice(cipher.ciphertext, 1, Len(cipher.ciphertext) - 1)} :
            cipher' = [cipher EXCEPT !.ciphertext = c, !.altered = "encoding"]
    /\ UNCHANGED << jwt, appVars, sideVars >>

CipherDecrypt ==
    /\ cipher.phase = "encrypted" /\ cipher.enc.ok
    /\ \E k \in Keys :
        cipher' = [cipher EXCEPT !.phase = "decrypted", !.dkey = k,
                                 !.result = decryptSecret(cipher.ciphertext, k)]
    /\ UNCHANGED << jwt, appVars, sideVars >>

CipherNext ==
    \/ CipherEncrypt
    \/ CipherTamperByte
    \/ CipherTruncate
    \/ CipherGarble
    \/ CipherDecrypt

SpecCipher == CipherInit /\ [][CipherNext]_vars

(***************************************************************************)
(* Claims about the cipher (under SpecCipher)                              *)
(***************************************************************************)

(* C1: round trip.  For every 32-byte key K and every plaintext P, the     *)
(* empty one included, encrypt succeeds and decrypt(encrypt(P, K), K)      *)
(* returns exactly P.                                                      *)
C1_RoundTrip ==
    /\ (cipher.phase # "init" /\ Len(cipher.key) = KeyLen) => cipher.enc.ok
    /\ (cipher.phase = "decrypted" /\ cipher.altered = "none" /\ cipher.dkey = cipher.key)
        => (cipher.result.ok /\ cipher.result.value = cipher.plaintext)

(* a plaintext with a multi-byte code point has made the round trip *)
C1_Witness ==
    /\ cipher.phase = "decrypted" /\ cipher.altered = "none" /\ cipher.dkey = cipher.key
    /\ \E i \in 1..Len(cipher.plaintext) : cipher.plaintext[i] > 127
    /\ cipher.result.value = cipher.plaintext

(* C2: tamper evidence.  A ciphertext whose nonce or body was altered      *)
(* after encryption, or that is decrypted under another key than the one   *)
(* it was encrypted with, never yields a plaintext; the failure is         *)
(* DecryptionFailed (for a key of 32 bytes and a buffer that still holds   *)
(* the 12 nonce bytes; the precondition failures have their own errors).   *)
C2_TamperEvident ==
    (cipher.phase = "decrypted" /\ (cipher.altered \in {"nonce", "body"} \/ cipher.dkey # cipher.key))
        => /\ ~cipher.result.ok
           /\ (Len(cipher.dkey) = KeyLen /\ cipher.altered \in {"none", "nonce", "body"})
                => cipher.result.error = "DecryptionFailed"

(* a byte of the body was changed and the right key was used *)
C2_Witness ==
    /\ cipher.phase = "decrypted" /\ cipher.altered = "body" /\ cipher.dkey = cipher.key
    /\ Len(Base64Decode(cipher.ciphertext)) = Len(Base64Decode(cipher.enc.value))
    /\ cipher.result.error = "DecryptionFailed"

(* C3: a key that is not exactly 32 bytes long makes encrypt and decrypt   *)
(* fail with InvalidKeyLength before any call to the platform cipher       *)
(* (key import, encrypt, decrypt).                                         *)
C3_KeyLength ==
    /\ (cipher.phase # "init" /\ Len(cipher.key) # KeyLen)
        => (~cipher.enc.ok /\ cipher.enc.error = "InvalidKeyLength" /\ cipher.enc.ops = <<>>)
    /\ (cipher.phase = "decrypted" /\ Len(cipher.dkey) # KeyLen)
        => (~cipher.result.ok /\ cipher.result.error = "InvalidKeyLength" /\ cipher.result.ops = <<>>)

(* a valid ciphertext was given to decrypt with a 16-byte key *)
C3_Witness ==
    /\ cipher.phase = "decrypted" /\ Len(cipher.dkey) = 16 /\ cipher.altered = "none"
    /\ cipher.result.error = "InvalidKeyLength"

(* C4: decrypt of a ciphertext that decodes to fewer than 12 bytes fails   *)
(* without a call to the platform cipher, and under a 32-byte key the      *)
(* error is TruncatedCiphertext.                                           *)
C4_Truncated ==
    (cipher.phase = "decrypted" /\ cipher.altered = "truncated")
        => /\ ~cipher.result.ok
           /\ cipher.result.ops = <<>>
           /\ Len(cipher.dkey) = KeyLen => cipher.result.error = "TruncatedCiphertext"

(* a buffer cut to 5 bytes was given to decrypt *)
C4_Witness ==
    /\ cipher.phase = "decrypted" /\ cipher.altered = "truncated" /\ Len(cipher.dkey) = KeyLen
    /\ Len(Base64Decode(cipher.ciphertext)) = 5
    /\ cipher.result.error = "TruncatedCiphertext"

(***************************************************************************)
(* parseJWT used once, on a token built from up to MaxSegments segments    *)
(***************************************************************************)
NoCipher ==
    [phase |-> "idle", key |-> <<>>, plaintext |-> <<>>, nonce |-> <<>>,
     enc |-> NoResult, ciphertext |-> <<>>, altered |-> "none", dkey |-> <<>>, result |-> NoResult]

TokenInit ==
    /\ \E segs \in SeqsUpTo(1..Len(SegPool), MaxSegments) :
        jwt = [phase |-> "init", segs |-> segs, token |-> JoinSegments(segs), result |-> Failure("")]
    /\ cipher = NoCipher
    /\ AppStart
    /\ SideStart

TokenParse ==
    /\ jwt.phase = "init"
    /\ jwt' = [jwt EXCEPT !.phase = "parsed", !.result = parseJWT(jwt.token)]
    /\ UNCHANGED << cipher, appVars, sideVars >>

TokenNext == TokenParse

SpecToken == TokenInit /\ [][TokenNext]_vars

(* the number of segments String.split finds in the token: an empty token has one *)
SegmentCount == IF Len(jwt.segs) = 0 THEN 1 ELSE Len(jwt.segs)

(* C5: parseJWT fails with MalformedToken for every token that does not    *)
(* split on '.' into exactly 3 segments, and with MissingClaim for every   *)
(* 3-segment token whose payload is a JSON object without a string member  *)
(* client_key; it returns key bytes only when both checks pass, and then   *)
(* the bytes the claim encodes.                                            *)
C5_TokenErrors ==
    jwt.phase = "parsed" =>
        /\ SegmentCount # 3 => (~jwt.result.ok /\ jwt.result.error = "MalformedToken")
        /\ (SegmentCount = 3 /\ SegPool[jwt.segs[2]].class = "noclaim")
            => (~jwt.result.ok /\ jwt.result.error = "MissingClaim")
        /\ jwt.result.ok
            => /\ SegmentCount = 3
               /\ SegPool[jwt.segs[2]].class = "key"
               /\ jwt.result.value = SegPool[jwt.segs[2]].key

(* the literal example: a payload {"client_key":"AAAA...A="} yields 32 zero bytes *)
C5_Witness ==
    /\ jwt.phase = "parsed" /\ jwt.result.ok /\ jwt.result.value = Fill(KeyLen, 0)


(***************************************************************************)
(* The application: session, SecretManagement's handlers, the backend      *)
(***************************************************************************)
Init ==
    /\ cipher = NoCipher
    /\ jwt = NoJwt
    /\ AppStart
    /\ SideStart

Slots == 1..MaxOps
FreeSlots == {i \in Slots : ops[i].kind = "none"}
NewSlot == CHOOSE i \in FreeSlots : \A j \in FreeSlots : i <= j

(* the request interceptor: the token in localStorage when the request is sent *)
(* 'Bearer ' *)
Bearer == << 66, 101, 97, 114, 101, 114, 32 >>

(* mutant of AuthHeader: the request interceptor adds no header *)
AuthHeader_None(storage) == <<>>

(* the request interceptor: the Authorization header of a request sent     *)
(* while the storage is as given; <<>> is no header                        *)
AuthHeader(storage) == IF storage.token # <<>> THEN Bearer \o storage.token ELSE <<>>

(* mutant of OnUnauthorized: a 401 leaves the token where it is *)
OnUnauthorized_KeepToken(storage) == storage

(* the response interceptor on status 401: removeItem('token') *)
OnUnauthorized(storage) == [storage EXCEPT !.token = <<>>]

StorageAfter(status) == IF status = "401" THEN OnUnauthorized(localStorage) ELSE localStorage

(* window.location.href = '/login' starts a document load *)
ReloadAfter(status) == IF status = "401" THEN "login" ELSE reloading

(* a state setter of an unmounted SecretManagement changes nothing *)
UiSet(op, u) == IF op.detached THEN ui ELSE u

(* loadSecrets up to its request *)
LoadSecretsStart(u) == [u EXCEPT !.loading = TRUE, !.error = ""]

(* the answers the backend can give to a request with this Authorization *)
Answers(auth) == IF auth # <<>> THEN {"ok"} \cup Failures ELSE Failures

Ended(event, op, sent) == [event |-> event, op |-> op, sent |-> sent]

Frame == UNCHANGED << cipher, jwt, clicks, sideVars >>

(* a step of a running call that receives nothing *)
Local ==
    /\ answered' = ""
    /\ Frame

(* the response interceptor, on the answer to a request *)
Receive(answer) ==
    /\ answered' = answer
    /\ localStorage' = StorageAfter(answer)
    /\ reloading' = ReloadAfter(answer)

(* a step started by the user *)
Click ==
    /\ clicks < MaxClicks
    /\ clicks' = clicks + 1
    /\ answered' = ""
    /\ UNCHANGED << cipher, jwt, sideVars >>

(* Login.handleSubmit up to the request of authAPI.login *)
SubmitLogin ==
    /\ Click
    /\ page = "login"
    /\ ~login.pending
    /\ login' = [pending |-> TRUE, auth |-> AuthHeader(localStorage)]
    /\ last' = Ended("SubmitLogin", FreeOp, Send(AuthHeader(localStorage)))
    /\ UNCHANGED << localStorage, page, reloading, ops, ui, backend >>

(* authAPI.login after the response, onLoginSuccess, ProtectedRoute and   *)
(* the mount of SecretManagement                                           *)
LoginResponseOk ==
    /\ login.pending
    /\ FreeSlots # {}
    /\ \E token \in LoginTokens \cup {<<>>} :
        LET storage == IF token # <<>> THEN [localStorage EXCEPT !.token = token] ELSE localStorage
            admitted == storage.token # <<>>
        IN  /\ localStorage' = storage
            /\ answered' = "ok"
            /\ login' = [pending |-> FALSE, auth |-> <<>>]
            /\ page' = IF admitted THEN "secrets" ELSE "login"
            /\ ui' = IF admitted THEN LoadSecretsStart(InitialUi) ELSE InitialUi
            /\ ops' = IF admitted
                      THEN [ops EXCEPT ![NewSlot] =
                                [NewOp("list") EXCEPT !.pc = "wait_list", !.auth = AuthHeader(storage)]]
                      ELSE ops
            /\ last' = Ended("LoginResponseOk", FreeOp,
                             IF admitted THEN Send(AuthHeader(storage)) ELSE NoSend)
    /\ UNCHANGED << reloading, backend >>
    /\ Frame

(* authAPI.login rejected: the response interceptor, then Login's catch *)
LoginResponseError ==
    /\ login.pending
    /\ \E status \in Failures : Receive(status)
    /\ login' = [pending |-> FALSE, auth |-> <<>>]
    /\ last' = Ended("LoginResponseError", FreeOp, NoSend)
    /\ UNCHANGED << page, ops, ui, backend >>
    /\ Frame

Detach(op) == IF op.kind = "none" THEN op ELSE [op EXCEPT !.detached = TRUE]

(* Navigation.handleLogout: four removeItem calls and navigate('/login');  *)
(* the handler calls still running keep running                            *)
NavLogout ==
    /\ Click
    /\ page = "secrets"
    /\ localStorage' = EmptyStorage
    /\ page' = "login"
    /\ ops' = [i \in Slots |-> Detach(ops[i])]
    /\ ui' = InitialUi
    /\ last' = Ended("NavLogout", FreeOp, NoSend)
    /\ UNCHANGED << reloading, login, backend >>

(* SecretManagement.handleLogout: removeItem('token') and location.reload() *)
SecretsLogout ==
    /\ Click
    /\ page = "secrets"
    /\ localStorage' = [localStorage EXCEPT !.token = <<>>]
    /\ reloading' = "reload"
    /\ last' = Ended("SecretsLogout", FreeOp, NoSend)
    /\ UNCHANGED << page, login, ops, ui, backend >>

(* authAPI.logout *)
AuthLogout ==
    /\ Click
    /\ localStorage.token # <<>>
    /\ localStorage' = [localStorage EXCEPT !.token = <<>>]
    /\ last' = Ended("AuthLogout", FreeOp, NoSend)
    /\ UNCHANGED << page, reloading, login, ops, ui, backend >>

(* the document load started by location.href or location.reload(): every *)
(* running call is gone, the route is rendered anew                        *)
PageLoad ==
    /\ reloading # "none"
    /\ LET admitted == reloading = "reload" /\ page = "secrets" /\ localStorage.token # <<>>
       IN  /\ page' = IF admitted THEN "secrets" ELSE "login"
           /\ ui' = IF admitted THEN LoadSecretsStart(InitialUi) ELSE InitialUi
           /\ ops' = IF admitted
                     THEN [i \in Slots |-> IF i = 1
                            THEN [NewOp("list") EXCEPT !.pc = "wait_list", !.auth = AuthHeader(localStorage)]
                            ELSE FreeOp]
                     ELSE [i \in Slots |-> FreeOp]
           /\ last' = Ended("PageLoad", FreeOp,
                            IF admitted THEN Send(AuthHeader(localStorage)) ELSE NoSend)
    /\ reloading' = "none"
    /\ login' = [pending |-> FALSE, auth |-> <<>>]
    /\ UNCHANGED << localStorage, backend >>
    /\ Local



(* the call in slot i ends: its slot is free again *)
Finish(i, event, op, u, sent) ==
    /\ ops' = [ops EXCEPT ![i] = FreeOp]
    /\ ui' = UiSet(op, u)
    /\ last' = Ended(event, op, sent)

(* the call in slot i goes on as op and waits *)
Continue(i, event, op, u, sent) ==
    /\ ops' = [ops EXCEPT ![i] = op]
    /\ ui' = UiSet(op, u)
    /\ last' = Ended(event, FreeOp, sent)

(* the finally block of the handler that called loadSecrets *)
AfterList(op, u) ==
    IF op.kind = "submit" THEN [u EXCEPT !.submitting = FALSE]
    ELSE IF op.kind = "batch" THEN [u EXCEPT !.uploading = FALSE]
    ELSE u

(* loadSecrets after the response of listSecrets *)
ListResponse(i) ==
    /\ ops[i].pc = "wait_list"
    /\ \E answer \in Answers(ops[i].auth) :
        /\ Receive(answer)
        /\ IF answer = "ok"
           THEN Finish(i, "ListDone", ops[i],
                    AfterList(ops[i], [ui EXCEPT !.secrets = ListOf(KeyNamesOf(backend)),
                                                 !.loading = FALSE]), NoSend)
           ELSE Finish(i, "ListFailed",
                    IF ops[i].kind = "list" THEN [ops[i] EXCEPT !.shown = "error"] ELSE ops[i],
                    AfterList(ops[i], [ui EXCEPT !.error = HttpError(answer), !.secrets = <<>>,
                                                 !.loading = FALSE]), NoSend)
    /\ UNCHANGED << page, login, backend >>
    /\ Frame

(* handleSubmitSecret from the built request on: storeSecret is sent *)
SubmitSend(i, op, u, built) ==
    Continue(i, "SubmitSent",
        [op EXCEPT !.pc = "wait_store", !.request = << built.secret >>, !.raws = << op.form >>,
                   !.calls = built.calls, !.auth = AuthHeader(localStorage)],
        u, Send(AuthHeader(localStorage)))

(* handleSubmitSecret up to its first encryptSecret, or to its request     *)
(* when no field needs encryption                                          *)
SubmitStart ==
    /\ Click
    /\ page = "secrets"
    /\ ~ui.submitting
    /\ FreeSlots # {}
    /\ \E form \in Forms :
        /\ form.key_name # <<>>
        /\ \E parsed \in { ParseToken(localStorage.token) } :
           LET op == [NewOp("submit") EXCEPT !.form = form, !.token = localStorage.token]
               u == [ui EXCEPT !.submitting = TRUE, !.error = "", !.success = ""]
               i == NewSlot
           IN  IF form.private_key = <<>> /\ form.api_key = <<>> /\ form.api_secret = <<>>
                  /\ form.api_passphrase = <<>>
               THEN /\ ui' = [ui EXCEPT !.error = MsgNeedOneField]
                    /\ last' = Ended("SubmitRejected", FreeOp, NoSend)
                    /\ ops' = ops
               ELSE IF localStorage.token = <<>>
               THEN Finish(i, "SubmitNoToken", [op EXCEPT !.shown = "error"],
                        [u EXCEPT !.error = MsgNoToken, !.submitting = FALSE], NoSend)
               ELSE IF ~parsed.ok
               THEN Finish(i, "SubmitBadToken", [op EXCEPT !.shown = "error"],
                        [u EXCEPT !.error = parsed.error, !.submitting = FALSE], NoSend)
               ELSE IF form.private_key # <<>> \/ form.api_secret # <<>>
               THEN Continue(i, "SubmitStart",
                        [op EXCEPT !.pc = "encrypting", !.clientKey = parsed.value], u, NoSend)
               ELSE \E built \in { FormRequest(form, parsed.value, TheNonce) } :
                        SubmitSend(i, [op EXCEPT !.clientKey = parsed.value], u, built)
    /\ UNCHANGED << localStorage, page, reloading, login, backend >>

(* handleSubmitSecret from its encryptSecret calls to its request *)
SubmitEncrypted(i) ==
    /\ ops[i].kind = "submit"
    /\ ops[i].pc = "encrypting"
    /\ \E nonce \in Nonces :
        \E built \in { FormRequest(ops[i].form, ops[i].clientKey, nonce) } :
        IF built.ok THEN SubmitSend(i, ops[i], ui, built)
        ELSE Finish(i, "SubmitFailed", [ops[i] EXCEPT !.calls = built.calls, !.shown = "error"],
                [ui EXCEPT !.error = built.error, !.submitting = FALSE], NoSend)
    /\ UNCHANGED << localStorage, page, reloading, login, backend >>
    /\ Local

(* handleSubmitSecret after the response of storeSecret *)
StoreResponse(i) ==
    /\ ops[i].pc = "wait_store"
    /\ \E answer \in Answers(ops[i].auth) :
        /\ Receive(answer)
        /\ IF answer = "ok"
           THEN /\ backend' = Store(backend, ops[i].request[1])
                /\ Continue(i, "StoreDone",
                        [ops[i] EXCEPT !.pc = "wait_list", !.shown = "success",
                                       !.auth = AuthHeader(localStorage)],
                        LoadSecretsStart([ui EXCEPT !.success = MsgUploadSuccess]),
                        Send(AuthHeader(localStorage)))
           ELSE /\ backend' = backend
                /\ Finish(i, "StoreFailed", [ops[i] EXCEPT !.shown = "error"],
                        [ui EXCEPT !.error = HttpError(answer), !.submitting = FALSE], NoSend)
    /\ UNCHANGED << page, login >>
    /\ Frame



(* handleBatchUpload after storeSecretsBatch has returned: the messages,  *)
(* and loadSecrets when nothing failed                                     *)
BatchResult(i, event, op, storage) ==
    IF op.failed # <<>>
    THEN Finish(i, event, [op EXCEPT !.shown = "error"],
            [ui EXCEPT !.error = MsgBatchPartial,
                       !.success = IF op.success # <<>> THEN "uploaded some" ELSE @,
                       !.uploading = FALSE], NoSend)
    ELSE Continue(i, event,
            [op EXCEPT !.pc = "wait_list", !.shown = "success", !.auth = AuthHeader(storage)],
            LoadSecretsStart([ui EXCEPT !.success = MsgBatchSuccess, !.error = ""]),
            Send(AuthHeader(storage)))

(* handleBatchUpload from secretsToUpload on: the request of storeSecretsBatch *)
BatchSend(i, op, u, built) ==
    IF ~built.ok
    THEN Finish(i, "BatchFailed", [op EXCEPT !.calls = built.calls, !.shown = "error"],
            [u EXCEPT !.error = built.error, !.uploading = FALSE], NoSend)
    ELSE IF built.request = <<>>
    THEN Finish(i, "BatchEmpty", [op EXCEPT !.calls = built.calls, !.shown = "error"],
            [u EXCEPT !.error = MsgNoValidSecrets, !.uploading = FALSE], NoSend)
    ELSE Continue(i, "BatchSent",
            [op EXCEPT !.pc = "wait_batch", !.request = built.request, !.raws = built.raws,
                       !.calls = built.calls, !.auth = AuthHeader(localStorage)],
            u, Send(AuthHeader(localStorage)))

(* handleBatchUpload up to its first encryptSecret, or to its request     *)
(* when no field needs encryption                                          *)
BatchStart ==
    /\ Click
    /\ page = "secrets"
    /\ ~ui.uploading
    /\ FreeSlots # {}
    /\ \E batchInput \in BatchInputs :
        /\ Trim(batchInput) # <<>>
        /\ \E parsed \in { ParseToken(localStorage.token) } :
           \E built \in { BatchRequests(batchInput, parsed.value, TheNonce) } :
           LET op == [NewOp("batch") EXCEPT !.batchInput = batchInput, !.token = localStorage.token]
               u == [ui EXCEPT !.uploading = TRUE, !.error = "", !.success = ""]
               encrypts == BatchRequests(batchInput, <<>>, TheNonce).calls # <<>>
               i == NewSlot
           IN  IF localStorage.token = <<>>
               THEN Finish(i, "BatchNoToken", [op EXCEPT !.shown = "error"],
                        [u EXCEPT !.error = MsgNoToken, !.uploading = FALSE], NoSend)
               ELSE IF ~parsed.ok
               THEN Finish(i, "BatchBadToken", [op EXCEPT !.shown = "error"],
                        [u EXCEPT !.error = parsed.error, !.uploading = FALSE], NoSend)
               ELSE IF encrypts
               THEN Continue(i, "BatchStart",
                        [op EXCEPT !.pc = "encrypting", !.clientKey = parsed.value], u, NoSend)
               ELSE BatchSend(i, [op EXCEPT !.clientKey = parsed.value], u, built)
    /\ UNCHANGED << localStorage, page, reloading, login, backend >>

(* handleBatchUpload from its encryptSecret calls to its request *)
BatchEncrypted(i) ==
    /\ ops[i].kind = "batch"
    /\ ops[i].pc = "encrypting"
    /\ \E nonce \in Nonces :
        \E built \in { BatchRequests(ops[i].batchInput, ops[i].clientKey, nonce) } :
            BatchSend(i, ops[i], ui, built)
    /\ UNCHANGED << localStorage, page, reloading, login, backend >>
    /\ Local

RECURSIVE Without(_, _)
(* the indexes 1..n outside bad, in order *)
Without(n, bad) ==
    IF n = 0 THEN <<>>
    ELSE Without(n - 1, bad) \o (IF n \in bad THEN <<>> ELSE << n >>)

(* storeSecretsBatch after the response of the batch request: the results *)
(* split into success and failed, or the first request of the fallback     *)
BatchResponse(i) ==
    /\ ops[i].pc = "wait_batch"
    /\ \E answer \in Answers(ops[i].auth) :
        /\ Receive(answer)
        /\ IF answer = "ok"
           THEN \E bad \in SUBSET (1..Len(ops[i].request)) :
                LET n == Len(ops[i].request)
                    stored == Without(n, bad)
                IN  /\ backend' = StoreAll(backend, ops[i].request, stored)
                    /\ BatchResult(i, "BatchDone",
                            [ops[i] EXCEPT !.success = stored, !.failed = Without(n, (1..n) \ bad)],
                            localStorage)
           ELSE /\ backend' = backend
                /\ Continue(i, "BatchFallback",
                        [ops[i] EXCEPT !.pc = "wait_fallback", !.idx = 1,
                                       !.auth = AuthHeader(StorageAfter(answer))],
                        ui, Send(AuthHeader(StorageAfter(answer))))
    /\ UNCHANGED << page, login >>
    /\ Frame

(* storeSecretsBatch's fallback after the response of one storeSecret *)
FallbackResponse(i) ==
    /\ ops[i].pc = "wait_fallback"
    /\ \E answer \in Answers(ops[i].auth) :
        LET op == IF answer = "ok" THEN [ops[i] EXCEPT !.success = Append(@, ops[i].idx)]
                  ELSE [ops[i] EXCEPT !.failed = Append(@, ops[i].idx)]
            storage == StorageAfter(answer)
        IN  /\ Receive(answer)
            /\ backend' = IF answer = "ok" THEN Store(backend, ops[i].request[ops[i].idx]) ELSE backend
            /\ IF ops[i].idx < Len(ops[i].request)
               THEN Continue(i, "FallbackNext",
                        [op EXCEPT !.idx = @ + 1, !.auth = AuthHeader(storage)], ui,
                        Send(AuthHeader(storage)))
               ELSE BatchResult(i, "FallbackDone", op, storage)
    /\ UNCHANGED << page, login >>
    /\ Frame

(* handleGetAndDecrypt from the decrypted fields on *)
DecryptEnd(i, op, u, fields) ==
    IF fields.ok
    THEN Finish(i, "DecryptDone",
            [op EXCEPT !.calls = fields.calls, !.decrypted = fields.decrypted, !.shown = "success"],
            [u EXCEPT !.decryptedData = fields.decrypted, !.success = MsgDecryptSuccess,
                      !.decrypting = FALSE], NoSend)
    ELSE Finish(i, "DecryptFailed", [op EXCEPT !.calls = fields.calls, !.shown = "error"],
            [u EXCEPT !.error = fields.error, !.decrypting = FALSE], NoSend)

(* handleGetAndDecrypt up to the request of getSecret *)
DecryptStart ==
    /\ Click
    /\ page = "secrets"
    /\ FreeSlots # {}
    /\ \E k \in 1..Len(ui.secrets) :
        LET keyName == ui.secrets[k] IN
        /\ ~(ui.decrypting /\ ui.selectedKeyName = keyName)
        /\ Continue(NewSlot, "DecryptStart",
                [NewOp("decrypt") EXCEPT !.pc = "wait_get", !.keyName = keyName,
                                         !.auth = AuthHeader(localStorage)],
                [ui EXCEPT !.selectedKeyName = keyName, !.decryptedData = NoDecrypted,
                           !.decrypting = TRUE, !.error = ""],
                Send(AuthHeader(localStorage)))
    /\ UNCHANGED << localStorage, page, reloading, login, backend >>

(* handleGetAndDecrypt after the response of getSecret, up to its first   *)
(* decryptSecret, or to its end when no field needs decryption             *)
GetResponse(i) ==
    /\ ops[i].pc = "wait_get"
    /\ \E answer \in Answers(ops[i].auth) :
        /\ Receive(answer)
        /\ IF answer = "ok"
           THEN \E secret \in { Lookup(backend, ops[i].keyName) } :
                \E parsed \in { ParseToken(localStorage.token) } :
                \E fields \in { DecryptFields(secret, parsed.value) } :
                LET op == [ops[i] EXCEPT !.secret = secret, !.token = localStorage.token]
                IN  IF localStorage.token = <<>>
                    THEN Finish(i, "DecryptNoToken", [op EXCEPT !.shown = "error"],
                            [ui EXCEPT !.error = MsgNoToken, !.decrypting = FALSE], NoSend)
                    ELSE IF ~parsed.ok
                    THEN Finish(i, "DecryptBadToken", [op EXCEPT !.shown = "error"],
                            [ui EXCEPT !.error = parsed.error, !.decrypting = FALSE], NoSend)
                    ELSE IF fields.calls # <<>>
                    THEN Continue(i, "GetDone",
                            [op EXCEPT !.pc = "decrypting", !.clientKey = parsed.value], ui, NoSend)
                    ELSE DecryptEnd(i, [op EXCEPT !.clientKey = parsed.value], ui, fields)
           ELSE Finish(i, "GetFailed", [ops[i] EXCEPT !.shown = "error"],
                    [ui EXCEPT !.error = HttpError(answer), !.decrypting = FALSE], NoSend)
    /\ UNCHANGED << page, login, backend >>
    /\ Frame

(* handleGetAndDecrypt from its decryptSecret calls to its end *)
Decrypted(i) ==
    /\ ops[i].kind = "decrypt"
    /\ ops[i].pc = "decrypting"
    /\ \E fields \in { DecryptFields(ops[i].secret, ops[i].clientKey) } :
        DecryptEnd(i, ops[i], ui, fields)
    /\ UNCHANGED << localStorage, page, reloading, login, backend >>
    /\ Local

Next ==
    \/ SubmitLogin
    \/ LoginResponseOk
    \/ LoginResponseError
    \/ NavLogout
    \/ SecretsLogout
    \/ AuthLogout
    \/ PageLoad
    \/ SubmitStart
    \/ BatchStart
    \/ DecryptStart
    \/ \E i \in Slots :
        \/ ListResponse(i)
        \/ SubmitEncrypted(i)
        \/ StoreResponse(i)
        \/ BatchEncrypted(i)
        \/ BatchResponse(i)
        \/ FallbackResponse(i)
        \/ GetResponse(i)
        \/ Decrypted(i)

Spec == Init /\ [][Next]_vars



(***************************************************************************)
(* Claims about the handlers and the session                               *)
(***************************************************************************)
(* the calls that are running, and the one that ended in the last step *)
Calls == {ops[i] : i \in Slots} \cup {last.op}

Uploads == {op \in Calls : op.kind \in {"submit", "batch"}}

(* the decrypt call that ended in the last step, if one did *)
ReadBacks == {op \in {last.op} : op.kind = "decrypt" /\ op.shown # "" /\ op.secret.key_name # <<>>}

CiphertextsOf(plaintext, key) == {Encrypt(plaintext, key, n).value : n \in Nonces}

(* one store request against the raw input it was built from *)
UploadFields(op, req, raw) ==
    /\ raw.private_key # <<>> =>
        /\ req.private_key \in CiphertextsOf(raw.private_key, op.clientKey)
        /\ req.private_key # raw.private_key
    /\ raw.api_secret # <<>> =>
        /\ req.api_secret \in CiphertextsOf(raw.api_secret, op.clientKey)
        /\ req.api_secret # raw.api_secret
    /\ req.api_key = raw.api_key
    /\ req.api_passphrase = raw.api_passphrase

UploadsEncryptTwoFields ==
    \A op \in Uploads : \A k \in 1..Len(op.request) :
        UploadFields(op, op.request[k], op.raws[k])

FieldsDecrypted(op) == {op.calls[k].field : k \in 1..Len(op.calls)}

(* the legacy value was decrypted and held a JSON object *)
BundleApplied(op) ==
    \E k \in 1..Len(op.calls) :
        /\ op.calls[k].field = "value"
        /\ op.calls[k].ok
        /\ JSONParseAny(op.calls[k].out).ok
        /\ JSONParseAny(op.calls[k].out).kind = "object"

(* C7, as stated: every store request carries private_key and api_secret  *)
(* encrypted under the client key and api_key and api_passphrase as typed; *)
(* on read-back exactly private_key and api_secret go through              *)
(* decryptSecret, and api_key and api_passphrase are used as received.     *)
C7_AsStated ==
    /\ UploadsEncryptTwoFields
    /\ \A op \in ReadBacks :
        /\ FieldsDecrypted(op) \subseteq {"private_key", "api_secret"}
        /\ op.shown = "success" =>
            /\ op.secret.private_key # <<>> <=> "private_key" \in FieldsDecrypted(op)
            /\ op.secret.api_secret # <<>> <=> "api_secret" \in FieldsDecrypted(op)
            /\ op.decrypted.api_key = op.secret.api_key
            /\ op.decrypted.api_passphrase = op.secret.api_passphrase

(* C7, amended: every store request carries private_key and api_secret    *)
(* encrypted under the client key and api_key and api_passphrase as typed; *)
(* on read-back private_key and api_secret go through decryptSecret when   *)
(* present, the legacy value goes through decryptSecret too when it is     *)
(* present and no non-empty private_key came out, and api_key and          *)
(* api_passphrase are used as received unless the legacy value decrypted   *)
(* to a JSON object, whose members then replace them.                      *)
C7_FieldSplit ==
    /\ UploadsEncryptTwoFields
    /\ \A op \in ReadBacks :
        /\ FieldsDecrypted(op) \subseteq {"private_key", "api_secret", "value"}
        /\ op.shown = "success" =>
            /\ op.secret.private_key # <<>> <=> "private_key" \in FieldsDecrypted(op)
            /\ op.secret.api_secret # <<>> <=> "api_secret" \in FieldsDecrypted(op)
            /\ "value" \in FieldsDecrypted(op) <=>
                /\ op.secret.value # <<>>
                /\ \A k \in 1..Len(op.calls) :
                    op.calls[k].field = "private_key" => op.calls[k].out = <<>>
            /\ ~BundleApplied(op) =>
                /\ op.decrypted.api_key = op.secret.api_key
                /\ op.decrypted.api_passphrase = op.secret.api_passphrase

(* a secret uploaded with all four fields was read back and decrypted *)
C7_Witness ==
    \E op \in ReadBacks :
        /\ op.shown = "success"
        /\ FieldsDecrypted(op) = {"private_key", "api_secret"}
        /\ op.decrypted.private_key = RawPrivateKey
        /\ op.decrypted.api_secret = RawApiSecret
        /\ op.decrypted.api_key = RawApiKey
        /\ op.decrypted.api_passphrase = RawPassphrase

KeyMaterial == ValidKeys \cup {Base64Encode(k) : k \in ValidKeys}

(* no item of localStorage and no state of the component is the key *)
KeyNotStored ==
    /\ \A item \in DOMAIN localStorage : localStorage[item] \notin KeyMaterial
    /\ ui.selectedKeyName \notin KeyMaterial
    /\ \A k \in 1..Len(ui.secrets) : ui.secrets[k] \notin KeyMaterial
    /\ \A f \in DOMAIN ui.decryptedData \ {"shown", "signature_type"} :
        ui.decryptedData[f] \notin KeyMaterial

(* C8: the client key is kept in no persistent or component state; a call *)
(* takes it from the token that is in localStorage when it runs and makes  *)
(* every encryptSecret / decryptSecret call with that key; a call started  *)
(* with no token encrypts nothing, decrypts nothing and stores nothing.    *)
C8_KeyRederived ==
    [][ /\ KeyNotStored'
        /\ \A i \in Slots :
            (ops'[i].clientKey # <<>> /\ ops[i].clientKey = <<>>) =>
                /\ localStorage.token # <<>>
                /\ ops'[i].token = localStorage.token
                /\ ops'[i].clientKey = parseJWT(localStorage.token).value
        /\ (last'.op.clientKey # <<>> /\ last'.op \notin {ops[i] : i \in Slots}) =>
                /\ last'.op.clientKey = parseJWT(last'.op.token).value
                /\ (\E i \in Slots : ops[i].token = last'.op.token) \/ last'.op.token = localStorage.token
        /\ \A op \in Calls' :
            /\ \A k \in 1..Len(op.calls) : op.calls[k].key = op.clientKey
            /\ (op.calls # <<>> \/ op.request # <<>>) => op.token # <<>>
        /\ (clicks' # clicks /\ localStorage.token = <<>>) =>
            /\ backend' = backend
            /\ last'.op.calls = <<>> /\ last'.op.request = <<>>
            /\ \A i \in Slots :
                (ops[i].kind = "none" /\ ops'[i].kind # "none") =>
                    (ops'[i].kind = "decrypt" /\ ops'[i].auth = <<>>)
        /\ \A op \in Calls' :
            (op.kind = "decrypt" /\ op.auth = <<>>) => (op.calls = <<>> /\ op.clientKey = <<>>)
      ]_vars

(* a call made its encryptSecret / decryptSecret calls with the key of   *)
(* the token of the second account                                         *)
C8_Witness ==
    \E op \in Calls :
        /\ op.calls # <<>>
        /\ op.token = TokenB
        /\ op.clientKey = Fill(KeyLen, 2)
        /\ \A k \in 1..Len(op.calls) : op.calls[k].key = Fill(KeyLen, 2)

(* C9: when a decryptSecret call of handleGetAndDecrypt fails, the call   *)
(* ends with an error shown and not with the success message.              *)
C9_NoSwallowedFailure ==
    \A op \in ReadBacks :
        (\E k \in 1..Len(op.calls) : ~op.calls[k].ok) =>
            /\ op.shown = "error"
            /\ ~op.detached => (ui.error # "" /\ ~ui.decryptedData.shown)

(* C10: after authAPI.logout, either logout handler or an answer with     *)
(* status 401 localStorage holds no token; a token appears only with the   *)
(* answer to a login; a request sent while there is no token carries no    *)
(* Authorization header.                                                   *)
C10_TokenDestroyed ==
    [][ /\ (last'.event \in {"AuthLogout", "NavLogout", "SecretsLogout"} \/ answered' = "401")
            => localStorage'.token = <<>>
        /\ (localStorage.token = <<>> /\ localStorage'.token # <<>>)
            => (last'.event = "LoginResponseOk" /\ answered' = "ok")
        /\ (last'.sent.made /\ localStorage'.token = <<>>) => last'.sent.auth = <<>>
      ]_vars

(* a 401 removed the token and the request sent next went without header *)
C10_Witness ==
    /\ answered = "401"
    /\ clicks >= 2
    /\ localStorage.token = <<>>
    /\ last.sent = Send(<<>>)

(* C11: a request sent while localStorage holds a token carries           *)
(* 'Authorization: Bearer <that token>', the token being the one stored    *)
(* when the request is sent; a request sent while there is no token        *)
(* carries no Authorization header.                                        *)
C11_BearerHeader ==
    [][ last'.sent.made =>
            last'.sent.auth = IF localStorage'.token # <<>>
                              THEN Bearer \o localStorage'.token ELSE <<>>
      ]_vars

(* a request went out under the token of the second account *)
C11_Witness ==
    /\ last.sent.made
    /\ localStorage.token = TokenB
    /\ last.sent.auth = Bearer \o TokenB
    /\ last.event \in {"SubmitSent", "DecryptStart", "BatchSent"}

(***************************************************************************)
(* The routes of App: one navigation, rendered until an element stays      *)
(***************************************************************************)
RoleDataEntry == << 100, 97, 116, 97, 95, 101, 110, 116, 114, 121 >>    \* 'data_entry'
RoleCustomer == << 99, 117, 115, 116, 111, 109, 101, 114 >>             \* 'customer'
RoleAdmin == << 97, 100, 109, 105, 110 >>                               \* 'admin'
TextTrue == << 116, 114, 117, 101 >>                                    \* 'true'
TextFalse == << 102, 97, 108, 115, 101 >>                               \* 'false'

(* App.tsx holds two builds of the router: "flag" reads is_admin and has   *)
(* /analytics, "role" reads the role and has /dashboard                    *)
Builds == {"flag", "role"}

Paths == {"/", "/login", "/register", "/secrets", "/workers", "/analytics", "/dashboard", "/other"}

(* <Navigate to=... replace /> and a rendered element *)
NavigateTo(to) == [navigate |-> to, element |-> ""]
Element(name) == [navigate |-> "", element |-> name]

(* getRole of utils/api: the role item of localStorage *)
getRole(storage) == storage.role

(* mutant of ProtectedRoute: the children are rendered, token or not *)
ProtectedRoute_Open(storage, children) == Element(children)

ProtectedRoute(storage, children) ==
    IF storage.token = <<>> THEN NavigateTo("/login") ELSE Element(children)

(* AdminRoute of the build that reads is_admin *)
AdminRouteByFlag(storage, children) ==
    IF storage.token = <<>> THEN NavigateTo("/login")
    ELSE IF storage.is_admin # TextTrue THEN NavigateTo("/secrets")
    ELSE Element(children)

AdminRoute(storage, children) ==
    IF storage.token = <<>> THEN NavigateTo("/login")
    ELSE IF getRole(storage) # RoleAdmin THEN NavigateTo("/secrets")
    ELSE Element(children)

CustomerDashboardRoute(storage, children) ==
    IF storage.token = <<>> THEN NavigateTo("/login")
    ELSE IF getRole(storage) # RoleCustomer /\ getRole(storage) # RoleAdmin THEN NavigateTo("/secrets")
    ELSE Element(children)

(* <Routes> of the two builds *)
RoutesByFlag(path, storage) ==
    IF path \in {"/login", "/register"} THEN Element("AuthPage")
    ELSE IF path = "/secrets" THEN ProtectedRoute(storage, "SecretManagement")
    ELSE IF path = "/workers" THEN AdminRouteByFlag(storage, "WorkerStatus")
    ELSE IF path = "/analytics" THEN ProtectedRoute(storage, "PolymarketAnalytics")
    ELSE NavigateTo("/secrets")

RoutesByRole(path, storage) ==
    IF path \in {"/login", "/register"} THEN Element("AuthPage")
    ELSE IF path = "/secrets" THEN ProtectedRoute(storage, "SecretManagement")
    ELSE IF path = "/workers" THEN AdminRoute(storage, "WorkerStatus")
    ELSE IF path = "/dashboard" THEN CustomerDashboardRoute(storage, "CustomerDashboard")
    ELSE NavigateTo("/secrets")

Routes(build, path, storage) ==
    IF build = "flag" THEN RoutesByFlag(path, storage) ELSE RoutesByRole(path, storage)

Storages ==
    { [EmptyStorage EXCEPT !.token = t, !.is_admin = a, !.role = r] :
        t \in {<<>>, TokenA}, a \in {<<>>, TextTrue, TextFalse},
        r \in {<<>>, RoleDataEntry, RoleCustomer, RoleAdmin} }

RouteInit ==
    /\ \E b \in Builds, st \in Storages, path \in Paths :
        route = [phase |-> "navigating", build |-> b, storage |-> st, requested |-> path,
                 path |-> path, element |-> ""]
    /\ cipher = NoCipher
    /\ jwt = NoJwt
    /\ AppStart
    /\ signup = NoSignup
    /\ util = NoUtil
    /\ MoreStart

(* the element of the location is a Navigate: the location is replaced *)
RouteRedirect ==
    /\ route.phase = "navigating"
    /\ \E el \in { Routes(route.build, route.path, route.storage) } :
        /\ el.navigate # ""
        /\ route' = [route EXCEPT !.path = el.navigate]
    /\ UNCHANGED << cipher, jwt, appVars, signup, util, moreVars >>

(* the element of the location is content: it is rendered *)
RouteRender ==
    /\ route.phase = "navigating"
    /\ \E el \in { Routes(route.build, route.path, route.storage) } :
        /\ el.navigate = ""
        /\ route' = [route EXCEPT !.phase = "rendered", !.element = el.element]
    /\ UNCHANGED << cipher, jwt, appVars, signup, util, moreVars >>

RouteNext ==
    \/ RouteRedirect
    \/ RouteRender

SpecRoute == RouteInit /\ [][RouteNext]_vars

(* the stored admin marker the build reads *)
StoredAdmin ==
    IF route.build = "flag" THEN route.storage.is_admin = TextTrue
    ELSE route.storage.role = RoleAdmin

ThrottleLimit == 2000       \* ms, the limit given to throttle
MaxTicks == 5               \* the clock stops after this many ticks
MaxMounts == 3              \* forms mounted in one run

(* the clock advances in steps of half the limit *)
TickMs == ThrottleLimit \div 2

MsgManualLogin == "registered, automatic login failed, log in manually"
MsgRegisterFailed == "register failed"
MsgLoginFailed == "login failed"

(* a form as it is mounted: throttle calls func while inThrottle is not    *)
(* set; timer is the time its setTimeout is due, -1 without one            *)
MountedForm(view, mount, now) ==
    [phase |-> "form", view |-> view, mount |-> mount, now |-> now,
     inThrottle |-> FALSE, timer |-> -1, pc |-> "idle", loading |-> FALSE, error |-> "",
     acceptedAt |-> -1,           \* history: when this form's throttle last called func
     registered |-> "",           \* history: "ok" / "failed", the register request of the call
     loginSent |-> FALSE,         \* history: the call sent its login request
     loggedIn |-> "",             \* history: "ok" / "failed", the login request of the call
     called |-> "",               \* history: the success callback the call made
     step |-> "mount", sent |-> ""]   \* history: the last step and the request it sent

SignupInit ==
    /\ \E view \in {"login", "register"} : signup = MountedForm(view, 1, 0)
    /\ cipher = NoCipher
    /\ jwt = NoJwt
    /\ AppStart
    /\ route = NoRoute
    /\ util = NoUtil
    /\ MoreStart

SignupFrame == UNCHANGED << cipher, jwt, route, util, moreVars, page, login, ops, ui, backend, last, clicks, answered >>

Step(s, kind, sent) == [s EXCEPT !.step = kind, !.sent = sent]

SignupTick ==
    /\ signup.phase = "form"
    /\ signup.now < MaxTicks * TickMs
    /\ signup' = Step([signup EXCEPT !.now = @ + TickMs], "tick", "")
    /\ UNCHANGED << localStorage, reloading >>
    /\ SignupFrame

(* the callback of setTimeout: not before the timer is due *)
ThrottleTimer ==
    /\ signup.phase = "form"
    /\ signup.timer # -1
    /\ signup.now >= signup.timer
    /\ signup' = Step([signup EXCEPT !.inThrottle = FALSE, !.timer = -1], "timer", "")
    /\ UNCHANGED << localStorage, reloading >>
    /\ SignupFrame

(* mutant of throttle: func is called every time *)
throttle_Off(s) ==
    [accepted |-> TRUE, s |-> s]

(* executedFunction of throttle: func is called when inThrottle is not set, *)
(* then inThrottle is set and the timer started                             *)
throttle(s) ==
    IF ~s.inThrottle
    THEN [accepted |-> TRUE, s |-> [s EXCEPT !.inThrottle = TRUE, !.timer = s.now + ThrottleLimit]]
    ELSE [accepted |-> FALSE, s |-> s]

(* handleSubmit: the form is validated, then the throttled handler called; *)
(* the inputs and the button are disabled while loading                     *)
SignupSubmit ==
    /\ signup.phase = "form"
    /\ ~signup.loading
    /\ \E valid \in BOOLEAN :
        \E t \in { throttle(signup) } :
        signup' =
            IF ~valid THEN Step([signup EXCEPT !.error = ""], "invalid", "")
            ELSE IF ~t.accepted THEN Step([t.s EXCEPT !.error = ""], "dropped", "")
            ELSE Step([t.s EXCEPT !.error = "", !.loading = TRUE, !.acceptedAt = signup.now,
                                  !.registered = "", !.loginSent = FALSE, !.loggedIn = "",
                                  !.called = "",
                                  !.pc = IF signup.view = "register" THEN "wait_register"
                                         ELSE "wait_login"],
                      "accepted", signup.view)
    /\ UNCHANGED << localStorage, reloading >>
    /\ SignupFrame

(* throttledRegister after authAPI.register: the automatic login is sent *)
RegisterResponseOk ==
    /\ signup.phase = "form"
    /\ signup.pc = "wait_register"
    /\ signup' = Step([signup EXCEPT !.registered = "ok", !.loginSent = TRUE,
                                     !.pc = "wait_autologin"], "registered", "login")
    /\ UNCHANGED << localStorage, reloading >>
    /\ SignupFrame

(* mutant of RegisterResponseError: the login request is sent all the same *)
RegisterResponseError_LoginAnyway ==
    /\ signup.phase = "form"
    /\ signup.pc = "wait_register"
    /\ signup' = Step([signup EXCEPT !.registered = "failed", !.loginSent = TRUE,
                                     !.pc = "wait_autologin"], "register_failed", "login")
    /\ UNCHANGED << localStorage, reloading >>
    /\ SignupFrame

(* authAPI.register rejected: the outer catch and finally *)
RegisterResponseError ==
    /\ signup.phase = "form"
    /\ signup.pc = "wait_register"
    /\ \E status \in Failures :
        /\ localStorage' = StorageAfter(status)
        /\ reloading' = ReloadAfter(status)
    /\ signup' = Step([signup EXCEPT !.registered = "failed", !.error = MsgRegisterFailed,
                                     !.loading = FALSE, !.pc = "idle"], "register_failed", "")
    /\ SignupFrame

(* authAPI.login answered: the token is stored, the success callback       *)
(* navigates to /secrets                                                   *)
SignupLoginOk ==
    /\ signup.phase = "form"
    /\ signup.pc \in {"wait_autologin", "wait_login"}
    /\ \E token \in LoginTokens :
        localStorage' = [localStorage EXCEPT !.token = token]
    /\ signup' = Step([signup EXCEPT !.phase = "left", !.loggedIn = "ok", !.loading = FALSE,
                                     !.pc = "idle",
                                     !.called = IF signup.pc = "wait_autologin"
                                                THEN "onRegisterSuccess" ELSE "onLoginSuccess"],
                      "logged_in", "")
    /\ UNCHANGED reloading
    /\ SignupFrame

(* authAPI.login rejected: the inner catch of throttledRegister, or the    *)
(* catch of throttledLogin                                                 *)
SignupLoginError ==
    /\ signup.phase = "form"
    /\ signup.pc \in {"wait_autologin", "wait_login"}
    /\ \E status \in Failures :
        /\ localStorage' = StorageAfter(status)
        /\ reloading' = ReloadAfter(status)
    /\ signup' = Step([signup EXCEPT !.loggedIn = "failed", !.loading = FALSE, !.pc = "idle",
                                     !.error = IF signup.pc = "wait_autologin"
                                               THEN MsgManualLogin ELSE MsgLoginFailed],
                      "login_failed", "")
    /\ SignupFrame

(* onSwitchToRegister / onSwitchToLogin: the other form is mounted, with   *)
(* a throttle of its own                                                   *)
SwitchForm ==
    /\ signup.phase = "form"
    /\ signup.pc = "idle"
    /\ signup.mount < MaxMounts
    /\ signup' = MountedForm(IF signup.view = "login" THEN "register" ELSE "login",
                             signup.mount + 1, signup.now)
    /\ UNCHANGED << localStorage, reloading >>
    /\ SignupFrame

(* the document load a 401 asked for: /login is rendered anew *)
SignupPageLoad ==
    /\ signup.phase = "form"
    /\ reloading # "none"
    /\ signup.mount < MaxMounts
    /\ signup' = MountedForm("login", signup.mount + 1, signup.now)
    /\ reloading' = "none"
    /\ UNCHANGED localStorage
    /\ SignupFrame

SignupNext ==
    \/ SignupTick
    \/ ThrottleTimer
    \/ SignupSubmit
    \/ RegisterResponseOk
    \/ RegisterResponseError
    \/ SignupLoginOk
    \/ SignupLoginError
    \/ SwitchForm
    \/ SignupPageLoad

SpecSignup == SignupInit /\ [][SignupNext]_vars

Submission == signup'.step \in {"accepted", "dropped"}

DecryptedDisplayed == last.event = "DecryptDone" /\ ui.decryptedData.shown

(* C20: under every interleaving of the responses, decrypted data that is  *)
(* displayed is the data of the secret whose name is shown as              *)
(* selectedKeyName; the result of a call started earlier never appears     *)
(* under the name of a secret selected later.                              *)
C20_DisplayedUnderOwnName ==
    DecryptedDisplayed =>
        /\ last.op.keyName = ui.selectedKeyName
        /\ ui.decryptedData = last.op.decrypted

(***************************************************************************)
(* Claim C30: the items of a session in localStorage.  App.tsx reads the   *)
(* items is_admin and role and removes username, is_admin and role; the    *)
(* code that stores them with the token at login is not among the sources. *)
(* A session starts here as that login left it: the document is loaded at  *)
(* /secrets with the four items stored                                     *)
(***************************************************************************)
UserAlice == << 97, 108, 105, 99, 101 >>        \* 'alice'

StoredSessions ==
    { [token |-> TokenA, username |-> UserAlice, is_admin |-> TextTrue, role |-> RoleAdmin],
      [token |-> TokenA, username |-> UserAlice, is_admin |-> TextFalse, role |-> RoleCustomer] }

SessionInit ==
    /\ cipher = NoCipher
    /\ jwt = NoJwt
    /\ SideStart
    /\ localStorage \in StoredSessions
    /\ page = "secrets"
    /\ reloading = "reload"
    /\ login = [pending |-> FALSE, auth |-> <<>>]
    /\ ops = [i \in 1..MaxOps |-> FreeOp]
    /\ ui = InitialUi
    /\ backend = InitialBackend
    /\ last = NoLast
    /\ clicks = 0
    /\ answered = ""

(* the steps that start and end a session: login, the three logouts, the   *)
(* document load and the answers to loadSecrets, among them status 401     *)
SessionNext ==
    \/ SubmitLogin
    \/ LoginResponseOk
    \/ LoginResponseError
    \/ NavLogout
    \/ SecretsLogout
    \/ AuthLogout
    \/ PageLoad
    \/ \E i \in Slots : ListResponse(i)

SpecSession == SessionInit /\ [][SessionNext]_vars

MaxBatch == 3               \* secrets in the input of storeSecretsBatch

BatchKeyNames == {"k1", "k2"}

SecretInputs == SeqsUpTo(BatchKeyNames, MaxBatch)

(* secrets[index] of an index outside the input *)
Undefined == "undefined"

BatchRequest(secrets) == [url |-> "/api/v1/secrets/batch", secrets |-> secrets]

StoreRequest(secret) == [url |-> "/api/v1/secrets", secrets |-> << secret >>]

(* the call before it runs *)
BatchCall(secrets) ==
    [phase |-> "init", secrets |-> secrets, sent |-> <<>>, answer |-> "", results |-> <<>>,
     answered |-> 0, success |-> <<>>, failed |-> <<>>, outcome |-> ""]

BatchInit ==
    /\ cipher = NoCipher
    /\ jwt = NoJwt
    /\ AppStart
    /\ route = NoRoute
    /\ signup = NoSignup
    /\ util = NoUtil
    /\ worker = NoWorker
    /\ provider = NoProvider
    /\ batch \in { BatchCall(secrets) : secrets \in SecretInputs }

BatchFrame == UNCHANGED << cipher, jwt, appVars, route, signup, util, worker, provider >>

(* return { success, failed } *)
Resolve(b, success, failed) ==
    [b EXCEPT !.phase = "returned", !.success = success, !.failed = failed, !.outcome = "resolved"]

(* the start of the call without its check of an empty input *)
StoreSecretsBatch_NoEmptyCheck(b) ==
    [b EXCEPT !.phase = "wait_batch", !.sent = << BatchRequest(b.secrets) >>]

(* the start of the call: an empty input returns at once, else the batch request *)
StoreSecretsBatch(b) ==
    IF Len(b.secrets) = 0 THEN Resolve(b, <<>>, <<>>)
    ELSE [b EXCEPT !.phase = "wait_batch", !.sent = << BatchRequest(b.secrets) >>]

RECURSIVE ResultsSuccess(_, _, _)
(* response.data.results.forEach: the entries pushed to success *)
ResultsSuccess(results, secrets, index) ==
    IF index > Len(results) THEN <<>>
    ELSE (IF results[index]
          THEN << [key_name |-> IF index <= Len(secrets) THEN secrets[index] ELSE Undefined] >>
          ELSE <<>>)
         \o ResultsSuccess(results, secrets, index + 1)

RECURSIVE ResultsFailed(_, _, _)
(* response.data.results.forEach: the entries pushed to failed *)
ResultsFailed(results, secrets, index) ==
    IF index > Len(results) THEN <<>>
    ELSE (IF ~results[index]
          THEN << [secret |-> IF index <= Len(secrets) THEN secrets[index] ELSE Undefined,
                   error |-> "error"] >>
          ELSE <<>>)
         \o ResultsFailed(results, secrets, index + 1)

(* the catch block: the first request of the fallback *)
Fallback(b, answer) ==
    [b EXCEPT !.phase = "wait_store", !.answer = answer,
              !.sent = Append(@, StoreRequest(b.secrets[1]))]

(* a fallback in which the first failure ends the loop *)
FallbackStep_StopOnFailure(b, ok) ==
    LET secret == b.secrets[b.answered + 1]
        next == [b EXCEPT !.answered = @ + 1,
                          !.success = IF ok THEN Append(@, [key_name |-> secret]) ELSE @,
                          !.failed = IF ok THEN @ ELSE Append(@, [secret |-> secret, error |-> "error"])]
    IN  IF next.answered < Len(b.secrets) /\ ok
        THEN [next EXCEPT !.sent = Append(@, StoreRequest(b.secrets[next.answered + 1]))]
        ELSE Resolve(next, next.success, next.failed)

(* the for loop of the fallback after the answer to one storeSecret *)
FallbackStep(b, ok) ==
    LET secret == b.secrets[b.answered + 1]
        next == [b EXCEPT !.answered = @ + 1,
                          !.success = IF ok THEN Append(@, [key_name |-> secret]) ELSE @,
                          !.failed = IF ok THEN @ ELSE Append(@, [secret |-> secret, error |-> "error"])]
    IN  IF next.answered < Len(b.secrets)
        THEN [next EXCEPT !.sent = Append(@, StoreRequest(b.secrets[next.answered + 1]))]
        ELSE Resolve(next, next.success, next.failed)

StoreSecretsBatchCall ==
    /\ batch.phase = "init"
    /\ batch' = StoreSecretsBatch(batch)
    /\ BatchFrame

(* the batch request is answered with a results array; the backend is not  *)
(* held to one result per secret                                           *)
BatchAnswered ==
    /\ batch.phase = "wait_batch"
    /\ \E results \in SeqsUpTo(BOOLEAN, Len(batch.secrets) + 1) :
        batch' = Resolve([batch EXCEPT !.answer = "results", !.results = results],
                         ResultsSuccess(results, batch.secrets, 1),
                         ResultsFailed(results, batch.secrets, 1))
    /\ BatchFrame

(* the batch request is answered with status 2xx and a body without a      *)
(* results array: forEach throws inside the try block                      *)
BatchUnreadable ==
    /\ batch.phase = "wait_batch"
    /\ batch' = Fallback(batch, "unreadable")
    /\ BatchFrame

(* the batch request is rejected: an error status or no answer at all *)
BatchRejected ==
    /\ batch.phase = "wait_batch"
    /\ batch' = Fallback(batch, "rejected")
    /\ BatchFrame

StoreAnswered ==
    /\ batch.phase = "wait_store"
    /\ \E ok \in BOOLEAN : batch' = FallbackStep(batch, ok)
    /\ BatchFrame

BatchNext ==
    \/ StoreSecretsBatchCall
    \/ BatchAnswered
    \/ BatchUnreadable
    \/ BatchRejected
    \/ StoreAnswered

SpecBatch == BatchInit /\ [][BatchNext]_vars

BatchReturned == batch.phase = "returned"

(* the secrets of the input *)
InputSecrets == { batch.secrets[i] : i \in DOMAIN batch.secrets }

EachReportedOnce ==
    /\ Len(batch.success) + Len(batch.failed) = Len(batch.secrets)
    /\ \A i \in DOMAIN batch.failed : batch.failed[i].secret \in InputSecrets

(* C22 as stated: for every call that returns, success.length +            *)
(* failed.length is the number of input secrets and every entry of failed  *)
(* refers to an input secret.                                              *)
C22_AsStated == BatchReturned => EachReportedOnce

(* C22: that holds when the fallback was used, when the input was empty    *)
(* and when the batch answer carries one result per input secret; after a  *)
(* batch answer, success.length + failed.length is the number of results.  *)
C22_EachReportedOnce ==
    BatchReturned =>
        /\ (batch.answer # "results" \/ Len(batch.results) = Len(batch.secrets)) => EachReportedOnce
        /\ batch.answer = "results" =>
              Len(batch.success) + Len(batch.failed) = Len(batch.results)

(* a fallback over three secrets has returned with successes and failures *)
C22_Witness ==
    /\ BatchReturned
    /\ batch.answer \in {"rejected", "unreadable"}
    /\ Len(batch.secrets) = MaxBatch
    /\ batch.success # <<>>
    /\ batch.failed # <<>>

(* the individual store requests of the call, in the order sent *)
StoreRequests == SubSeq(batch.sent, 2, Len(batch.sent))

RequestOrder(cause) ==
    /\ batch.secrets = <<>> => batch.sent = <<>>
    /\ batch.sent # <<>> => batch.sent[1] = BatchRequest(batch.secrets)
    /\ StoreRequests # <<>> => batch.answer \in cause
    /\ \A j \in DOMAIN StoreRequests : StoreRequests[j] = StoreRequest(batch.secrets[j])
    /\ batch.phase = "wait_store" => Len(StoreRequests) = batch.answered + 1
    /\ (BatchReturned /\ batch.answer \in {"rejected", "unreadable"})
          => Len(StoreRequests) = Len(batch.secrets)
    /\ batch.outcome # "rejected"

(* C23 as stated: no request for an empty input; else first one batch      *)
(* request; individual requests only if the batch request was rejected,    *)
(* then one per input secret, one after the other in input order, a        *)
(* failure not stopping the following ones; the call never rejects.        *)
C23_AsStated == RequestOrder({"rejected"})

(* C23: the same, with the individual requests sent when the batch request *)
(* was rejected or its answer has no results array.                        *)
C23_RequestOrder == RequestOrder({"rejected", "unreadable"})

(* the fallback after a rejected batch request went past a failed request *)
C23_Witness ==
    /\ BatchReturned
    /\ batch.answer = "rejected"
    /\ Len(batch.sent) = Len(batch.secrets) + 1
    /\ Len(batch.secrets) >= 2
    /\ batch.failed # <<>>
    /\ batch.failed[1].secret = batch.secrets[1]

(***************************************************************************)
(* The functions of utils/env and utils/security, each called once         *)
(***************************************************************************)
(* import.meta.env: "" is an unset variable *)
ViteEnvironments == {"", "production", "prod", "test", "development", "staging"}
ViteModes == {"development", "production"}

(* getEnvironment of utils/env.ts *)
getEnvironment(env) ==
    IF env.VITE_ENVIRONMENT = "production" \/ env.VITE_ENVIRONMENT = "prod" THEN "production"
    ELSE "test"

(* getEnvironment of the other copy of utils/env: VITE_ENVIRONMENT || MODE *)
getEnvironmentOrMode(env) ==
    LET e == IF env.VITE_ENVIRONMENT # "" THEN env.VITE_ENVIRONMENT ELSE env.MODE
    IN  IF e = "production" \/ e = "prod" THEN "production" ELSE "test"

(* the two copies of utils/env in the repository *)
EnvBuilds == {"env.ts", "part_006"}

EnvironmentOf(build, env) ==
    IF build = "env.ts" THEN getEnvironment(env) ELSE getEnvironmentOrMode(env)

isTestEnvironment(build, env) == EnvironmentOf(build, env) = "test"

isProductionEnvironment(build, env) == EnvironmentOf(build, env) = "production"

(* EnvironmentBanner: TRUE when the Alert is rendered *)
EnvironmentBanner(build, env) == isTestEnvironment(build, env)

(* a call that has not run yet *)
UtilCall(fn, build, env, arg) ==
    [phase |-> "init", fn |-> fn, build |-> build, env |-> env, arg |-> arg, result |-> <<>>]

EnvCalls ==
    { UtilCall("getEnvironment", b, [VITE_ENVIRONMENT |-> v, MODE |-> m], <<>>) :
        b \in EnvBuilds, v \in ViteEnvironments, m \in ViteModes }

Returned(result) == [util EXCEPT !.phase = "done", !.result = result]

UtilFrame == UNCHANGED << cipher, jwt, appVars, route, signup, moreVars >>

CallGetEnvironment ==
    /\ util.phase = "init"
    /\ util.fn = "getEnvironment"
    /\ util' = Returned([environment |-> EnvironmentOf(util.build, util.env),
                         isTest |-> isTestEnvironment(util.build, util.env),
                         isProduction |-> isProductionEnvironment(util.build, util.env),
                         banner |-> EnvironmentBanner(util.build, util.env)])
    /\ UtilFrame

(* C14: getEnvironment returns 'production' only when VITE_ENVIRONMENT is  *)
(* production or prod, and 'test' when VITE_ENVIRONMENT is unset, whatever *)
(* MODE is; exactly one of isTestEnvironment and isProductionEnvironment   *)
(* is true, and the banner is shown exactly in the test environment.       *)
C14_ExplicitProduction ==
    (util.phase = "done" /\ util.fn = "getEnvironment") =>
        /\ util.result.environment = "production"
            => util.env.VITE_ENVIRONMENT \in {"production", "prod"}
        /\ util.env.VITE_ENVIRONMENT = "" => util.result.environment = "test"
        /\ util.result.isTest # util.result.isProduction
        /\ util.result.banner <=> util.result.environment = "test"

(***************************************************************************)
(* getSafeErrorMessage (utils/security.ts)                                 *)
(***************************************************************************)
(* the fixed messages of the production branch, in English *)
Generic401 == "authentication failed, log in again"
Generic403 == "permission denied"
Generic404 == "resource not found"
Generic5xx == "server error, retry later"
DefaultMessages == {"operation failed", "login failed"}

(* an error as the handlers catch it: status 0 is an error without a       *)
(* response, "" a missing or empty error.response.data.error/error.message *)
Statuses == {0, 400, 401, 403, 404, 405, 500, 503}
ServerTexts == {"", "user alice not found in table users"}
ErrorMessages == {"", "Request failed with status code", "Network Error"}
Errors == [status : Statuses, serverError : ServerTexts, message : ErrorMessages]

(* the build-time variables that decide the environment *)
Envs == [VITE_ENVIRONMENT : {"", "production", "test"}, MODE : ViteModes]

getSafeErrorMessage_Detailed(production, error, defaultMessage) ==
    IF error.serverError # "" THEN error.serverError
    ELSE IF error.message # "" THEN error.message
    ELSE defaultMessage

getSafeErrorMessage(production, error, defaultMessage) ==
    IF production
    THEN IF error.status = 401 THEN Generic401
         ELSE IF error.status = 403 THEN Generic403
         ELSE IF error.status = 404 THEN Generic404
         ELSE IF error.status >= 500 THEN Generic5xx
         ELSE defaultMessage
    ELSE IF error.serverError # "" THEN error.serverError
         ELSE IF error.message # "" THEN error.message
         ELSE defaultMessage

ErrorCalls ==
    { UtilCall("getSafeErrorMessage", b, e, [error |-> err, defaultMessage |-> d]) :
        b \in EnvBuilds, e \in Envs, err \in Errors, d \in DefaultMessages }

CallGetSafeErrorMessage ==
    /\ util.phase = "init"
    /\ util.fn = "getSafeErrorMessage"
    /\ util' = Returned(getSafeErrorMessage(isProductionEnvironment(util.build, util.env),
                                            util.arg.error, util.arg.defaultMessage))
    /\ UtilFrame

(* the result getSafeErrorMessage returned for the error the call was made with *)
SafeMessageReturned == util.phase = "done" /\ util.fn = "getSafeErrorMessage"

(* C16: in production the result is one of the four fixed messages or the *)
(* caller's default, and it is the result for every other error of the     *)
(* same status, whatever its server text and message are; outside          *)
(* production it is the server text, else error.message, else the default. *)
C16_SafeErrorMessage ==
    SafeMessageReturned =>
        IF isProductionEnvironment(util.build, util.env)
        THEN /\ util.result \in {Generic401, Generic403, Generic404, Generic5xx,
                                 util.arg.defaultMessage}
             /\ \A other \in Errors :
                    other.status = util.arg.error.status =>
                        getSafeErrorMessage(TRUE, other, util.arg.defaultMessage) = util.result
        ELSE util.result =
                IF util.arg.error.serverError # "" THEN util.arg.error.serverError
                ELSE IF util.arg.error.message # "" THEN util.arg.error.message
                ELSE util.arg.defaultMessage

(* a production call with an error that carries a server text and a message *)
C16_Witness ==
    /\ SafeMessageReturned
    /\ isProductionEnvironment(util.build, util.env)
    /\ util.arg.error.status = 500
    /\ util.arg.error.serverError # ""
    /\ util.arg.error.message # ""
    /\ util.result = Generic5xx

(***************************************************************************)
(* secureLog (utils/security.ts) and the console output of the response    *)
(* interceptor (utils/api.ts).  The console is the sequence of the calls   *)
(* of console.log, console.warn and console.error, each with its arguments *)
(***************************************************************************)
FixedErrorText == "An error occurred"
Text405 == "405 Method Not Allowed:"

Console(level, args) == << [level |-> level, args |-> args] >>

LogArgs == { << "login failed", "user alice not found in table users" >>,
             << "GET /api/v1/secrets/o1" >> }

secureLog_log(production, args) == IF ~production THEN Console("log", args) ELSE <<>>

secureLog_warn(production, args) == IF ~production THEN Console("warn", args) ELSE <<>>

secureLog_error(production, args) ==
    IF production THEN Console("error", << FixedErrorText >>) ELSE Console("error", args)

secureLog(level, production, args) ==
    IF level = "log" THEN secureLog_log(production, args)
    ELSE IF level = "warn" THEN secureLog_warn(production, args)
    ELSE secureLog_error(production, args)

(* the requests whose answer the response interceptor sees *)
RequestConfigs ==
    [method : {"GET", "POST"}, url : {"/api/v1/secrets", "/api/v1/auth/login"},
     baseURL : {"", "https://api.polyking.site"}]

(* the console calls of the rejection handler of api.interceptors.response: *)
(* console.error is called directly, in every environment                   *)
ResponseErrorConsole(production, status, config) ==
    IF status = 405
    THEN Console("error", << Text405, config.method, config.url, config.baseURL,
                             config.baseURL \o config.url >>)
    ELSE <<>>

LogCalls ==
    { UtilCall("secureLog", b, e, [level |-> l, args |-> a]) :
        b \in EnvBuilds, e \in Envs, l \in {"log", "warn", "error"}, a \in LogArgs }

ResponseCalls ==
    { UtilCall("interceptors.response", b, e, [status |-> s, config |-> c]) :
        b \in EnvBuilds, e \in Envs, s \in Statuses \ {0}, c \in RequestConfigs }

CallSecureLog ==
    /\ util.phase = "init"
    /\ util.fn = "secureLog"
    /\ util' = Returned(secureLog(util.arg.level, isProductionEnvironment(util.build, util.env),
                                  util.arg.args))
    /\ UtilFrame

ResponseRejected ==
    /\ util.phase = "init"
    /\ util.fn = "interceptors.response"
    /\ util' = Returned(ResponseErrorConsole(isProductionEnvironment(util.build, util.env),
                                             util.arg.status, util.arg.config))
    /\ UtilFrame

(* a step of the application that may write to the console has run *)
ConsoleWritten == util.phase = "done" /\ util.fn \in {"secureLog", "interceptors.response"}

(* C17: in production no console output carries request or error details: *)
(* secureLog.log and secureLog.warn write nothing, secureLog.error writes  *)
(* only 'An error occurred', and the response interceptor's handling of a  *)
(* 405 answer writes nothing else either.                                  *)
C17_NoDetailsInProduction ==
    (ConsoleWritten /\ isProductionEnvironment(util.build, util.env)) =>
        /\ \A i \in DOMAIN util.result :
              util.result[i] = [level |-> "error", args |-> << FixedErrorText >>]
        /\ (util.fn = "secureLog" /\ util.arg.level \in {"log", "warn"}) => util.result = <<>>

(***************************************************************************)
(* validateHTTPS, ensureHTTPS (utils/security.ts) and getApiBaseUrlConfig  *)
(* (utils/api.ts).  A URL text is the record of its parts as written; ""   *)
(* is a part that is not written.  new URL(text) throws for a text without *)
(* scheme and host, lower-cases the scheme, drops the scheme's default     *)
(* port and writes an empty path as "/".                                   *)
(***************************************************************************)
UrlText(scheme, host, port, path) ==
    [scheme |-> scheme, host |-> host, port |-> port, path |-> path]

EmptyText == UrlText("", "", "", "")

UrlTexts ==
    { UrlText("", "", "", p) : p \in {"", "/api"} }
    \cup { UrlText(s, h, n, p) : s \in {"http", "HTTP", "https"},
                                 h \in {"api.polyking.site", "localhost"},
                                 n \in {"", "80", "443", "8866"}, p \in {"", "/api"} }

Parseable(text) == text.scheme # "" /\ text.host # ""

LowerCase(scheme) == IF scheme = "HTTP" THEN "http" ELSE scheme

DefaultPort(protocol) ==
    IF protocol = "http" THEN "80" ELSE IF protocol = "https" THEN "443" ELSE ""

(* new URL(text), for a text that parses *)
URL(text) ==
    LET protocol == LowerCase(text.scheme)
    IN  [protocol |-> protocol, host |-> text.host,
         port |-> IF text.port = DefaultPort(protocol) THEN "" ELSE text.port,
         pathname |-> IF text.path = "" THEN "/" ELSE text.path]

(* urlObj.protocol = protocol: the port is dropped when it is the new      *)
(* scheme's default port                                                   *)
SetProtocol(urlObj, protocol) ==
    [urlObj EXCEPT !.protocol = protocol,
                   !.port = IF urlObj.port = DefaultPort(protocol) THEN "" ELSE urlObj.port]

(* urlObj.toString() *)
toString(urlObj) == UrlText(urlObj.protocol, urlObj.host, urlObj.port, urlObj.pathname)

validateHTTPS(production, url) ==
    IF url = EmptyText THEN FALSE
    ELSE IF ~Parseable(url) THEN FALSE
    ELSE IF production THEN URL(url).protocol = "https"
    ELSE URL(url).protocol = "http" \/ URL(url).protocol = "https"

ensureHTTPS(production, url) ==
    IF url = EmptyText THEN url
    ELSE IF ~Parseable(url) THEN url
    ELSE IF production /\ URL(url).protocol = "http"
         THEN toString(SetProtocol(URL(url), "https"))
         ELSE url

(* getApiBaseUrl of utils/env *)
getApiBaseUrl(env) == env.VITE_API_BASE_URL

ProductionApi == UrlText("https", "api.polyking.site", "", "")
LocalApi == UrlText("http", "localhost", "8866", "")

(* import.meta.env.DEV *)
DEV(env) == env.MODE = "development"

(* getApiBaseUrlConfig of utils/api.ts, lines 10-23 *)
getApiBaseUrlConfigByMode(envBuild, env) ==
    IF getApiBaseUrl(env) # EmptyText THEN getApiBaseUrl(env)
    ELSE IF DEV(env) THEN EmptyText
    ELSE ProductionApi

(* getApiBaseUrlConfig of utils/api.ts, lines 269-291 *)
getApiBaseUrlConfig(envBuild, env) ==
    IF getApiBaseUrl(env) # EmptyText THEN getApiBaseUrl(env)
    ELSE IF EnvironmentOf(envBuild, env) = "production" THEN ProductionApi
    ELSE IF DEV(env) THEN EmptyText
    ELSE LocalApi

ApiBuilds == {"api.ts 1-23", "api.ts 262-294"}

(* axios.create({baseURL: API_BASE_URL}) *)
API_BASE_URL(apiBuild, envBuild, env) ==
    IF apiBuild = "api.ts 1-23" THEN getApiBaseUrlConfigByMode(envBuild, env)
    ELSE getApiBaseUrlConfig(envBuild, env)

UrlCalls ==
    { UtilCall(fn, b, e, u) :
        fn \in {"validateHTTPS", "ensureHTTPS"}, b \in EnvBuilds, e \in Envs, u \in UrlTexts }

BaseUrlCalls ==
    { UtilCall("getApiBaseUrlConfig", b,
               [VITE_ENVIRONMENT |-> e.VITE_ENVIRONMENT, MODE |-> e.MODE, VITE_API_BASE_URL |-> u],
               a) :
        b \in EnvBuilds, e \in Envs, u \in UrlTexts, a \in ApiBuilds }

CallValidateHTTPS ==
    /\ util.phase = "init"
    /\ util.fn = "validateHTTPS"
    /\ util' = Returned(validateHTTPS(isProductionEnvironment(util.build, util.env), util.arg))
    /\ UtilFrame

CallEnsureHTTPS ==
    /\ util.phase = "init"
    /\ util.fn = "ensureHTTPS"
    /\ util' = Returned(ensureHTTPS(isProductionEnvironment(util.build, util.env), util.arg))
    /\ UtilFrame

CreateApi ==
    /\ util.phase = "init"
    /\ util.fn = "getApiBaseUrlConfig"
    /\ util' = Returned(API_BASE_URL(util.arg, util.build, util.env))
    /\ UtilFrame

InProduction == util.phase = "done" /\ isProductionEnvironment(util.build, util.env)

(* in production ensureHTTPS turns every parseable http URL into an https  *)
(* URL and is idempotent, and validateHTTPS accepts only https URLs        *)
HTTPSFunctions ==
    /\ (InProduction /\ util.fn = "ensureHTTPS") =>
          /\ (Parseable(util.arg) /\ LowerCase(util.arg.scheme) = "http")
                => util.result.scheme = "https"
          /\ ensureHTTPS(TRUE, util.result) = util.result
    /\ (InProduction /\ util.fn = "validateHTTPS") =>
          (util.result => (Parseable(util.arg) /\ LowerCase(util.arg.scheme) = "https"))

(* C18: in production HTTPS is enforced: the base URL of the API client is *)
(* never an http URL, ensureHTTPS returns an https URL for every parseable *)
(* http URL and is idempotent, and validateHTTPS accepts only https URLs.  *)
C18_HTTPSEnforced ==
    /\ HTTPSFunctions
    /\ (InProduction /\ util.fn = "getApiBaseUrlConfig") =>
          LowerCase(util.result.scheme) # "http"

(***************************************************************************)
(* validatePassword (utils/security.ts).  A password is the sequence of    *)
(* its character codes                                                     *)
(***************************************************************************)
MinPasswordLength == 8
MaxPasswordLength == 128
LongPasswordLength == 12
MaxPad == 128               \* a password is a seed followed by at most this many equal characters

ErrPasswordEmpty == "password must not be empty"
ErrPasswordShort == "password needs at least 8 characters"
ErrPasswordLong == "password must not exceed 128 characters"
ErrPasswordNoLetter == "password must contain a letter"
ErrPasswordNoDigit == "password must contain a digit"
ErrPasswordCommon == "password is too simple"

(* commonPasswords *)
commonPasswords ==
    { << 112, 97, 115, 115, 119, 111, 114, 100 >>,
      << 112, 97, 115, 115, 119, 111, 114, 100, 49, 50, 51 >>,
      << 49, 50, 51, 52, 53, 54, 55, 56 >>,
      << 113, 119, 101, 114, 116, 121, 49, 50, 51 >>,
      << 97, 100, 109, 105, 110, 49, 50, 51 >>,
      << 49, 50, 51, 52, 53, 54, 55, 56, 57 >>,
      << 112, 97, 115, 115, 119, 111, 114, 100, 49 >> }

(* the passwords tried: every seed, followed by 0..MaxPad times x, X, 7 or # *)
PasswordSeeds ==
    { <<>>,
      << 97 >>,
      << 55 >>,
      << 35 >>,
      << 97, 98, 99, 49 >>,
      << 65, 98, 99, 49, 35 >>,
      << 97, 98, 99, 100, 101, 102, 49 >>,
      << 49, 50, 51, 52, 53, 54, 55 >>,
      << 112, 97, 115, 115, 119, 111, 114, 100 >>,
      << 80, 97, 115, 115, 119, 111, 114, 100, 49, 50, 51 >>,
      << 80, 65, 83, 83, 87, 79, 82, 68, 49, 50, 51 >>,
      << 112, 97, 115, 115, 119, 111, 114, 100, 49 >>,
      << 49, 50, 51, 52, 53, 54, 55, 56 >>,
      << 49, 50, 51, 52, 53, 54, 55, 56, 57 >>,
      << 81, 87, 69, 82, 84, 89, 49, 50, 51 >>,
      << 97, 100, 109, 105, 110, 49, 50, 51 >>,
      << 65, 100, 109, 105, 110, 49, 50, 51, 52 >>,
      << 97, 98, 99, 100, 101, 102, 103, 104 >>,
      << 65, 98, 99, 100, 101, 102, 103, 49 >>,
      << 65, 66, 67, 68, 69, 70, 71, 49, 35 >> }

Passwords ==
    { seed \o Fill(n, c) : seed \in PasswordSeeds, n \in 0..MaxPad, c \in {120, 88, 55, 35} }

IsLowerCase(c) == c >= 97 /\ c <= 122
IsUpperCase(c) == c >= 65 /\ c <= 90

(* the regular expressions of validatePassword *)
HasLowerCase(password) == \E i \in DOMAIN password : IsLowerCase(password[i])
HasUpperCase(password) == \E i \in DOMAIN password : IsUpperCase(password[i])
HasDigit(password) == \E i \in DOMAIN password : IsDigit(password[i])
HasSpecial(password) ==
    \E i \in DOMAIN password :
        ~(IsLowerCase(password[i]) \/ IsUpperCase(password[i]) \/ IsDigit(password[i]))
HasLetter(password) ==
    \E i \in DOMAIN password : IsLowerCase(password[i]) \/ IsUpperCase(password[i])

(* password.toLowerCase() *)
toLowerCase(password) ==
    Flat([i \in DOMAIN password |->
            IF IsUpperCase(password[i]) THEN password[i] + 32 ELSE password[i]])

Score(password) ==
    (IF HasLowerCase(password) THEN 1 ELSE 0)
    + (IF HasUpperCase(password) THEN 1 ELSE 0)
    + (IF HasDigit(password) THEN 1 ELSE 0)
    + (IF HasSpecial(password) THEN 1 ELSE 0)
    + (IF Len(password) >= LongPasswordLength THEN 1 ELSE 0)

Strength(score) == IF score >= 4 THEN "strong" ELSE IF score >= 3 THEN "medium" ELSE "weak"

Rejected(error) == [valid |-> FALSE, strength |-> "weak", error |-> error]

(* the check of the list without toLowerCase *)
validatePassword_CaseSensitive(password) ==
    IF Len(password) = 0 THEN Rejected(ErrPasswordEmpty)
    ELSE IF Len(password) < MinPasswordLength THEN Rejected(ErrPasswordShort)
    ELSE IF Len(password) > MaxPasswordLength THEN Rejected(ErrPasswordLong)
    ELSE IF ~HasLetter(password) THEN Rejected(ErrPasswordNoLetter)
    ELSE IF ~HasDigit(password) THEN Rejected(ErrPasswordNoDigit)
    ELSE IF password \in commonPasswords THEN Rejected(ErrPasswordCommon)
    ELSE [valid |-> TRUE, strength |-> Strength(Score(password)), error |-> ""]

validatePassword(password) ==
    IF Len(password) = 0 THEN Rejected(ErrPasswordEmpty)
    ELSE IF Len(password) < MinPasswordLength THEN Rejected(ErrPasswordShort)
    ELSE IF Len(password) > MaxPasswordLength THEN Rejected(ErrPasswordLong)
    ELSE IF ~HasLetter(password) THEN Rejected(ErrPasswordNoLetter)
    ELSE IF ~HasDigit(password) THEN Rejected(ErrPasswordNoDigit)
    ELSE IF toLowerCase(password) \in commonPasswords THEN Rejected(ErrPasswordCommon)
    ELSE [valid |-> TRUE, strength |-> Strength(Score(password)), error |-> ""]

PasswordCalls ==
    { UtilCall("validatePassword", "env.ts", [VITE_ENVIRONMENT |-> "", MODE |-> "production"], p) :
        p \in Passwords }

CallValidatePassword ==
    /\ util.phase = "init"
    /\ util.fn = "validatePassword"
    /\ util' = Returned(validatePassword(util.arg))
    /\ UtilFrame

PasswordValidated == util.phase = "done" /\ util.fn = "validatePassword"

(* the five criteria of the strength that hold for a password *)
Criteria(password) ==
    { k \in {"lowercase", "uppercase", "digit", "special", "long"} :
        \/ k = "lowercase" /\ \E i \in DOMAIN password : password[i] \in 97..122
        \/ k = "uppercase" /\ \E i \in DOMAIN password : password[i] \in 65..90
        \/ k = "digit" /\ \E i \in DOMAIN password : password[i] \in 48..57
        \/ k = "special" /\ \E i \in DOMAIN password :
                                password[i] \notin (97..122) \cup (65..90) \cup (48..57)
        \/ k = "long" /\ Len(password) >= 12 }

(* a password is in the list of common passwords when case is ignored *)
IsCommon(password) ==
    \E common \in commonPasswords :
        /\ Len(common) = Len(password)
        /\ \A i \in DOMAIN password :
              \/ password[i] = common[i]
              \/ password[i] \in 65..90 /\ password[i] + 32 = common[i]

(* C19: validatePassword accepts exactly the passwords of 8 to 128         *)
(* characters with a letter and a digit that are not, ignoring case, in    *)
(* the list of common passwords; a rejected password has strength weak     *)
(* and an error message; an accepted one is strong with at least 4 of the  *)
(* 5 criteria, medium with exactly 3, else weak.                           *)
C19_ValidatePassword ==
    PasswordValidated =>
        /\ util.result.valid <=>
              /\ Len(util.arg) >= 8
              /\ Len(util.arg) <= 128
              /\ \E i \in DOMAIN util.arg : util.arg[i] \in (97..122) \cup (65..90)
              /\ \E i \in DOMAIN util.arg : util.arg[i] \in 48..57
              /\ ~IsCommon(util.arg)
        /\ ~util.result.valid => (util.result.strength = "weak" /\ util.result.error # "")
        /\ util.result.valid =>
              util.result.strength =
                  IF Cardinality(Criteria(util.arg)) >= 4 THEN "strong"
                  ELSE IF Cardinality(Criteria(util.arg)) = 3 THEN "medium"
                  ELSE "weak"

(* a common password written in upper case has been rejected *)
C19_Witness ==
    /\ PasswordValidated
    /\ util.arg \notin commonPasswords
    /\ IsCommon(util.arg)
    /\ ~util.result.valid
    /\ util.result.error = ErrPasswordCommon

(* every call of the functions above, before it runs *)
UtilCalls == EnvCalls \cup ErrorCalls \cup LogCalls \cup ResponseCalls
             \cup UrlCalls \cup BaseUrlCalls \cup PasswordCalls

UtilInit ==
    /\ cipher = NoCipher
    /\ jwt = NoJwt
    /\ AppStart
    /\ route = NoRoute
    /\ signup = NoSignup
    /\ MoreStart
    /\ util \in UtilCalls

UtilNext ==
    \/ CallGetEnvironment
    \/ CallGetSafeErrorMessage
    \/ CallSecureLog
    \/ ResponseRejected
    \/ CallValidateHTTPS
    \/ CallEnsureHTTPS
    \/ CreateApi
    \/ CallValidatePassword

SpecUtil == UtilInit /\ [][UtilNext]_vars

(***************************************************************************)
(* WorkerStatus (components/WorkerStatus.tsx): the list of statuses, its   *)
(* refreshes, the expanded rows, the uploads and the limit order dialog    *)
(***************************************************************************)
MaxLoads == 3               \* calls of loadStatuses started in one run
MaxWorkerClicks == 2        \* clicks of the user on the page in one run
MaxStatuses == 3            \* entries of one response

(* checked_at as the backend writes it; "" is a missing checked_at *)
Time5 == "2024-01-01T00:00:05Z"
Time5Offset == "2024-01-01T08:00:05+08:00"
Time7 == "2024-01-01T00:00:07Z"

(* new Date(checked_at).getTime(), in seconds after 2024-01-01T00:00:00Z *)
getTime(checked_at) ==
    IF checked_at = Time5 THEN 5
    ELSE IF checked_at = Time5Offset THEN 5
    ELSE IF checked_at = Time7 THEN 7
    ELSE 0

(* the rows of worker statuses the backend holds *)
StatusRows ==
    { [id |-> 1, ip |-> "10.0.0.1", checked_at |-> ""],
      [id |-> 2, ip |-> "10.0.0.1", checked_at |-> Time5],
      [id |-> 3, ip |-> "10.0.0.1", checked_at |-> Time5Offset],
      [id |-> 4, ip |-> "10.0.0.2", checked_at |-> Time7] }

WorkerIPs == { r.ip : r \in StatusRows }

(* response.statuses: rows of the backend in any order *)
StatusLists(rows) ==
    { q \in SeqsUpTo(rows, MaxStatuses) :
        \A i, j \in DOMAIN q : i # j => q[i] # q[j] }

(* existing.checked_at ? new Date(existing.checked_at).getTime() : 0 *)
TimeOf(status) == IF status.checked_at # "" THEN getTime(status.checked_at) ELSE 0

(* statusMap.set(status.ip, status): a Map keeps the place of a key it has *)
MapSet(entries, status) ==
    IF \E i \in DOMAIN entries : entries[i].ip = status.ip
    THEN [i \in DOMAIN entries |-> IF entries[i].ip = status.ip THEN status ELSE entries[i]]
    ELSE Append(entries, status)

(* the loop that keeps the later entry on equal times *)
MapStep_KeepLast(entries, status) ==
    IF \A i \in DOMAIN entries : entries[i].ip # status.ip
    THEN MapSet(entries, status)
    ELSE LET existing == CHOOSE e \in { entries[i] : i \in DOMAIN entries } : e.ip = status.ip
         IN  IF TimeOf(status) >= TimeOf(existing) THEN MapSet(entries, status) ELSE entries

(* one round of response.statuses.forEach *)
MapStep(entries, status) ==
    IF \A i \in DOMAIN entries : entries[i].ip # status.ip
    THEN MapSet(entries, status)
    ELSE LET existing == CHOOSE e \in { entries[i] : i \in DOMAIN entries } : e.ip = status.ip
         IN  IF TimeOf(status) > TimeOf(existing) THEN MapSet(entries, status) ELSE entries

RECURSIVE UniqueFrom(_, _)
UniqueFrom(entries, rest) ==
    IF rest = <<>> THEN entries ELSE UniqueFrom(MapStep(entries, Head(rest)), Tail(rest))

(* uniqueStatuses = Array.from(statusMap.values()) *)
UniqueStatuses(statuses) == UniqueFrom(<<>>, statuses)

IPsOf(statuses) == { statuses[i].ip : i \in DOMAIN statuses }
IdsOf(statuses) == { statuses[i].id : i \in DOMAIN statuses }

(* the component after its first render and its effects: the load of the   *)
(* mount effect and the load of the hideOffline effect are waiting for     *)
(* their responses, the interval timer runs                                *)
NoData == [ip |-> "", token_id |-> "", asset |-> ""]

NoDialog == [show |-> FALSE, data |-> NoData, price |-> "", size_rate |-> "100",
             submitting |-> FALSE, pending |-> <<>>, sent |-> <<>>]

LoadCall(seq, expandedIPs, positionsIPs, hideOffline) ==
    [seq |-> seq, expandedIPs |-> expandedIPs, positionsIPs |-> positionsIPs,
     hideOffline |-> hideOffline]

Mounted(rows) ==
    [phase |-> "mounted", event |-> "mount", rows |-> rows, statuses |-> <<>>, response |-> <<>>, loading |-> TRUE,
     error |-> "", expandedRows |-> {}, showPositionsRows |-> {}, hideOffline |-> TRUE,
     timers |-> 1, loads |-> { LoadCall(1, {}, {}, TRUE), LoadCall(2, {}, {}, TRUE) },
     started |-> 2, shown |-> 0, ended |-> 0, wanted |-> {}, checks |-> 0, positions |-> {},
     clicks |-> 0,
     selectedFile |-> "", uploading |-> {}, uploads |-> {},
     fetches |-> [ip \in WorkerIPs |-> 0], toast |-> "", dialog |-> NoDialog]

WorkerInit ==
    /\ cipher = NoCipher
    /\ jwt = NoJwt
    /\ AppStart
    /\ route = NoRoute
    /\ signup = NoSignup
    /\ util = NoUtil
    /\ batch = NoBatch
    /\ provider = NoProvider
    /\ worker = Mounted(StatusRows)

WorkerFrame == UNCHANGED << cipher, jwt, appVars, route, signup, util, batch, provider >>

(* loadStatuses up to its request: the refs are read before the await *)
loadStatuses(w) ==
    [w EXCEPT !.loading = TRUE, !.error = "", !.started = @ + 1,
              !.loads = @ \cup { LoadCall(w.started + 1,
                                          { w.statuses[i].ip : i \in { j \in DOMAIN w.statuses :
                                                                        w.statuses[j].id \in w.expandedRows } },
                                          w.showPositionsRows, w.hideOffline) }]

(* loadStatuses that reads expandedRows when the response is there *)
LoadResponded_FromState(w, call, statuses) ==
    LET uniqueStatuses == UniqueStatuses(statuses)
    IN  [w EXCEPT !.statuses = uniqueStatuses, !.response = statuses,
                  !.expandedRows = { s \in IdsOf(uniqueStatuses) :
                        \E i \in DOMAIN uniqueStatuses :
                            uniqueStatuses[i].id = s /\ uniqueStatuses[i].ip \in w.wanted },
                  !.showPositionsRows = { ip \in w.showPositionsRows : ip \in IPsOf(uniqueStatuses) },
                  !.loading = FALSE, !.loads = @ \ {call}, !.shown = call.seq,
                  !.ended = IF call.seq > @ THEN call.seq ELSE @, !.event = "loaded"]

(* loadStatuses after a response with statuses *)
LoadResponded(w, call, statuses) ==
    LET uniqueStatuses == UniqueStatuses(statuses)
    IN  [w EXCEPT !.statuses = uniqueStatuses, !.response = statuses,
                  !.expandedRows = { uniqueStatuses[i].id : i \in { j \in DOMAIN uniqueStatuses :
                                            uniqueStatuses[j].ip \in call.expandedIPs } },
                  !.showPositionsRows = { ip \in call.positionsIPs : ip \in IPsOf(uniqueStatuses) },
                  !.loading = FALSE, !.loads = @ \ {call}, !.shown = call.seq,
                  !.ended = IF call.seq > @ THEN call.seq ELSE @, !.event = "loaded"]

(* loadStatuses after a rejected request, or a response without statuses *)
LoadRejected(w, call, error) ==
    [w EXCEPT !.statuses = <<>>, !.response = <<>>, !.error = error, !.loading = FALSE, !.loads = @ \ {call},
              !.shown = call.seq, !.ended = IF call.seq > @ THEN call.seq ELSE @,
              !.event = "load failed"]

WorkerClick(w) == [w EXCEPT !.clicks = @ + 1]

CanClick == worker.clicks < MaxWorkerClicks

CanLoad == worker.started < MaxLoads

(* the response of getWorkerStatuses carries statuses *)
LoadAnswered ==
    /\ \E call \in worker.loads : \E statuses \in StatusLists(worker.rows) :
          worker' = LoadResponded(worker, call, statuses)
    /\ WorkerFrame

(* getWorkerStatuses is rejected, or its response has no statuses: the     *)
(* catch block sets the error, the else branch does not                    *)
LoadFailed ==
    /\ \E call \in worker.loads : \E error \in {"", "load failed"} :
          worker' = LoadRejected(worker, call, error)
    /\ WorkerFrame

(* the callback of setInterval *)
IntervalTick ==
    /\ worker.timers > 0
    /\ CanLoad
    /\ worker' = [loadStatuses(worker) EXCEPT !.event = "tick"]
    /\ WorkerFrame

(* the hideOffline checkbox: the effect of [hideOffline] loads, the effect *)
(* of the interval clears its timer and sets a new one                     *)
ToggleHideOffline ==
    /\ CanClick
    /\ CanLoad
    /\ worker' = [loadStatuses(WorkerClick([worker EXCEPT !.hideOffline = ~@]))
                    EXCEPT !.timers = (@ - 1) + 1, !.event = "hideOffline"]
    /\ WorkerFrame

(* the refresh button, disabled while loading *)
RefreshClick ==
    /\ CanClick
    /\ CanLoad
    /\ ~worker.loading
    /\ worker' = [loadStatuses(WorkerClick(worker)) EXCEPT !.event = "refresh"]
    /\ WorkerFrame

(* handleCheckStatus up to the request of checkWorkerStatus *)
CheckStatus ==
    /\ CanClick
    /\ worker.statuses # <<>>
    /\ worker' = [WorkerClick(worker) EXCEPT !.checks = @ + 1, !.event = "check"]
    /\ WorkerFrame

(* handleCheckStatus after the response: loadStatuses, or the toast of the catch *)
CheckAnswered ==
    /\ worker.checks > 0
    /\ \/ /\ CanLoad
          /\ worker' = [loadStatuses(worker) EXCEPT !.checks = @ - 1, !.event = "checked"]
       \/ worker' = [worker EXCEPT !.checks = @ - 1, !.event = "check failed"]
    /\ WorkerFrame

WorkerNext ==
    \/ LoadAnswered
    \/ LoadFailed
    \/ IntervalTick
    \/ ToggleHideOffline
    \/ RefreshClick
    \/ CheckStatus
    \/ CheckAnswered

SpecWorker == WorkerInit /\ [][WorkerNext]_vars

(* a loadStatuses call has just ended with a response that had statuses *)
Loaded == worker.phase = "mounted" /\ worker.event = "loaded"

(* the entries of the response for one IP *)
EntriesFor(ip) == { i \in DOMAIN worker.response : worker.response[i].ip = ip }

(* C21: after every successful loadStatuses the list has at most one entry *)
(* per IP, every IP of the response is in it, and the entry kept for an IP *)
(* has the greatest checked_at of the response's entries for that IP, a    *)
(* missing one counting as 0, and is the earliest of them on a tie.        *)
C21_Deduplicated ==
    Loaded =>
        /\ \A i, j \in DOMAIN worker.statuses :
              worker.statuses[i].ip = worker.statuses[j].ip => i = j
        /\ IPsOf(worker.statuses) = IPsOf(worker.response)
        /\ \A i \in DOMAIN worker.statuses :
              \E k \in EntriesFor(worker.statuses[i].ip) :
                  /\ worker.response[k] = worker.statuses[i]
                  /\ \A m \in EntriesFor(worker.statuses[i].ip) :
                        LET kept == IF worker.response[k].checked_at = "" THEN 0
                                    ELSE getTime(worker.response[k].checked_at)
                            other == IF worker.response[m].checked_at = "" THEN 0
                                     ELSE getTime(worker.response[m].checked_at)
                        IN  /\ other <= kept
                            /\ other = kept => k <= m

(* the response held two entries of one IP with the same time, written     *)
(* differently, after an entry without checked_at: the first of the two is *)
(* kept                                                                    *)
C21_Witness ==
    /\ Loaded
    /\ Len(worker.response) = 3
    /\ worker.response[1].id = 1
    /\ worker.response[2].id = 3
    /\ worker.response[3].id = 2
    /\ Len(worker.statuses) = 1
    /\ worker.statuses[1].id = 3

(***************************************************************************)
(* WorkerStatus: the expanded rows over refreshes                          *)
(***************************************************************************)
(* the backend holds two rows of one worker and one row of another *)
RowsInit ==
    /\ cipher = NoCipher
    /\ jwt = NoJwt
    /\ AppStart
    /\ route = NoRoute
    /\ signup = NoSignup
    /\ util = NoUtil
    /\ batch = NoBatch
    /\ provider = NoProvider
    /\ worker = Mounted({ r \in StatusRows : r.id # 3 })

(* toggleRowExpansion; wanted is the history of the user's latest toggles, by IP *)
ToggleRow ==
    /\ CanClick
    /\ \E i \in DOMAIN worker.statuses :
        LET status == worker.statuses[i]
        IN  worker' = [WorkerClick(worker) EXCEPT
                !.expandedRows = IF status.id \in @ THEN @ \ {status.id} ELSE @ \cup {status.id},
                !.wanted = IF status.id \in worker.expandedRows THEN @ \ {status.ip}
                           ELSE @ \cup {status.ip},
                !.event = "toggle"]
    /\ WorkerFrame

(* loadWorkerPositions up to its request; statuses and expandedRows of the *)
(* render of the click stay in the closure                                 *)
PositionsClick ==
    /\ CanClick
    /\ \E i \in DOMAIN worker.statuses :
        LET status == worker.statuses[i]
        IN  /\ \A p \in worker.positions : p.ip # status.ip
            /\ worker' = [WorkerClick(worker) EXCEPT
                    !.positions = @ \cup { [ip |-> status.ip, id |-> status.id,
                                            expanded |-> status.id \in worker.expandedRows] },
                    !.event = "positions"]
    /\ WorkerFrame

(* loadWorkerPositions after the response *)
PositionsAnswered ==
    /\ \E p \in worker.positions :
        \/ worker' = [worker EXCEPT
                !.positions = @ \ {p},
                !.showPositionsRows = @ \cup {p.ip},
                !.expandedRows = IF ~p.expanded THEN @ \cup {p.id} ELSE @,
                !.wanted = @ \cup {p.ip},
                !.event = "positions loaded"]
        \/ worker' = [worker EXCEPT !.positions = @ \ {p}, !.event = "positions failed"]
    /\ WorkerFrame

RowsNext ==
    \/ LoadAnswered
    \/ LoadFailed
    \/ IntervalTick
    \/ ToggleRow
    \/ PositionsClick
    \/ PositionsAnswered

SpecRows == RowsInit /\ [][RowsNext]_vars

(* C24: after any loadStatuses completes, a row of the list is expanded    *)
(* if and only if the user's latest toggle for its worker left it          *)
(* expanded, also for a toggle made while the request was in flight and    *)
(* over a failed refresh followed by a successful one; showPositionsRows   *)
(* holds only IPs of the list.                                             *)
C24_RowsKept ==
    /\ worker.phase = "mounted" /\ worker.event \in {"loaded", "load failed"} =>
          \A i \in DOMAIN worker.statuses :
              worker.statuses[i].id \in worker.expandedRows <=> worker.statuses[i].ip \in worker.wanted
    /\ worker.phase = "mounted" => worker.showPositionsRows \subseteq IPsOf(worker.statuses)

(* the call of loadStatuses that started last is still waiting *)
LatestInFlight == \E call \in worker.loads : call.seq = worker.started

(* C25: when loadStatuses calls overlap, the displayed statuses and the    *)
(* loading flag are those of the call that started last: the response of   *)
(* an earlier call never replaces the response of a later one, loading is  *)
(* true while the latest call waits, and at most one interval timer runs.  *)
C25_LatestCallShown ==
    worker.phase = "mounted" =>
        /\ worker.shown >= worker.ended
        /\ LatestInFlight => worker.loading
        /\ worker.timers <= 1

(***************************************************************************)
(* WorkerStatus: handleUploadFile                                          *)
(***************************************************************************)
FileNames == { "worker.exe", "notes.txt" }

(* selectedFile.name.toLowerCase().endsWith('.exe') *)
IsExe(name) == name = "worker.exe"

(* the ways the request of an upload ends *)
UploadOutcomes == { "ok", "ok unreadable", "403", "502", "500", "abort", "network" }

(* a file is selected, the backend holds one row for each of two workers *)
UploadInit ==
    /\ cipher = NoCipher
    /\ jwt = NoJwt
    /\ AppStart
    /\ route = NoRoute
    /\ signup = NoSignup
    /\ util = NoUtil
    /\ batch = NoBatch
    /\ provider = NoProvider
    /\ \E name \in FileNames :
          worker = [Mounted({ r \in StatusRows : r.id \in {2, 4} }) EXCEPT !.selectedFile = name]

(* handleUploadFile up to the fetch: the three early returns, then the IP  *)
(* is added and the request sent                                           *)
handleUploadFile(w, ip, confirmed) ==
    IF w.selectedFile = "" THEN [w EXCEPT !.toast = "no file", !.event = "upload refused"]
    ELSE IF ~IsExe(w.selectedFile) /\ ~confirmed THEN [w EXCEPT !.event = "upload refused"]
    ELSE IF ip \in w.uploading THEN [w EXCEPT !.event = "upload refused"]
    ELSE [w EXCEPT !.uploading = @ \cup {ip},
                   !.fetches[ip] = @ + 1,
                   !.uploads = @ \cup { [ip |-> ip, phase |-> "fetch", load |-> 0] },
                   !.event = "upload"]

(* the finally block that forgets to delete the IP *)
UploadFinally_Skipped(w, up) ==
    [w EXCEPT !.uploads = @ \ {up}]

(* the finally block of handleUploadFile *)
UploadFinally(w, up) ==
    [w EXCEPT !.uploads = @ \ {up}, !.uploading = @ \ {up.ip}]

(* handleUploadFile after the fetch: the toast of each branch; after an ok *)
(* response it awaits loadStatuses, on every other way it ends             *)
UploadResponded(w, up, outcome) ==
    LET done == [w EXCEPT !.fetches[up.ip] = @ - 1, !.toast = outcome, !.event = "upload " \o outcome]
    IN  IF outcome = "ok"
        THEN [loadStatuses(done) EXCEPT !.uploads = (@ \ {up}) \cup
                                   { [ip |-> up.ip, phase |-> "reload", load |-> w.started + 1] }]
        ELSE UploadFinally(done, up)

(* the upload button of a row, shown with a selected file and disabled     *)
(* while the IP is in uploading                                            *)
UploadClick ==
    /\ CanClick
    /\ worker.selectedFile # ""
    /\ \E i \in DOMAIN worker.statuses : \E confirmed \in BOOLEAN :
          /\ worker.statuses[i].ip \notin worker.uploading
          /\ worker' = handleUploadFile(WorkerClick(worker), worker.statuses[i].ip, confirmed)
    /\ WorkerFrame

(* the fetch of an upload ends *)
UploadAnswered ==
    /\ \E up \in worker.uploads : \E outcome \in UploadOutcomes :
          /\ up.phase = "fetch"
          /\ outcome = "ok" => CanLoad
          /\ worker' = UploadResponded(worker, up, outcome)
    /\ WorkerFrame

(* the loadStatuses call awaited by an upload has ended *)
UploadReloaded ==
    /\ \E up \in worker.uploads :
          /\ up.phase = "reload"
          /\ \A call \in worker.loads : call.seq # up.load
          /\ worker' = [UploadFinally(worker, up) EXCEPT !.event = "upload ended"]
    /\ WorkerFrame

UploadNext ==
    \/ LoadAnswered
    \/ LoadFailed
    \/ UploadClick
    \/ UploadAnswered
    \/ UploadReloaded

SpecUpload == UploadInit /\ [][UploadNext]_vars

(* C26: for each worker IP at most one upload request is in flight, and    *)
(* the uploading set holds exactly the IPs whose upload has not ended, on  *)
(* whichever way an upload ends; it is empty when no upload runs.          *)
C26_UploadGuard ==
    worker.phase = "mounted" =>
        /\ \A ip \in WorkerIPs : worker.fetches[ip] <= 1
        /\ \A up1, up2 \in worker.uploads : up1.ip = up2.ip => up1 = up2
        /\ worker.uploading = { up.ip : up \in worker.uploads }
        /\ worker.uploads = {} => worker.uploading = {}

(* uploads to both workers wait for their responses at the same time *)
C26_Witness ==
    /\ worker.phase = "mounted"
    /\ \A ip \in WorkerIPs : worker.fetches[ip] = 1
    /\ worker.uploading = WorkerIPs

(***************************************************************************)
(* WorkerStatus: the limit order dialog                                    *)
(***************************************************************************)
MaxOrders == 2              \* submissions of the dialog in one run

(* positions shown under the expanded row of 10.0.0.1 *)
PositionRows ==
    { [ip |-> "10.0.0.1", token_id |-> "token-1", asset |-> "asset-1"],
      [ip |-> "10.0.0.1", token_id |-> "token-2", asset |-> "asset-2"] }

(* texts typed into the price and size_rate inputs *)
PriceTexts == { "", "0", "0.5", "-1", "abc", "5abc" }
RateTexts == { "", "0", "50", "100", "100.5", "1e2" }

NaN == [nan |-> TRUE, value |-> 0]

(* a number, in hundredths *)
Num(hundredths) == [nan |-> FALSE, value |-> hundredths]

(* parseFloat: the longest prefix that is a decimal literal, NaN without one *)
parseFloat(text) ==
    CASE text = "0" -> Num(0)
      [] text = "0.5" -> Num(50)
      [] text = "-1" -> Num(-100)
      [] text = "5abc" -> Num(500)
      [] text = "50" -> Num(5000)
      [] text = "100" -> Num(10000)
      [] text = "100.5" -> Num(10050)
      [] text = "1e2" -> Num(10000)
      [] OTHER -> NaN

(* the page with the row of 10.0.0.1 expanded and its positions shown *)
OrderInit ==
    /\ cipher = NoCipher
    /\ jwt = NoJwt
    /\ AppStart
    /\ route = NoRoute
    /\ signup = NoSignup
    /\ util = NoUtil
    /\ batch = NoBatch
    /\ provider = NoProvider
    /\ \E rows \in { { r \in StatusRows : r.id = 2 } } :
          worker = [Mounted(rows) EXCEPT
                        !.statuses = << CHOOSE r \in rows : TRUE >>,
                        !.response = << CHOOSE r \in rows : TRUE >>,
                        !.loading = FALSE, !.loads = {}, !.shown = 2, !.ended = 2,
                        !.expandedRows = {2}, !.wanted = {"10.0.0.1"},
                        !.showPositionsRows = {"10.0.0.1"}, !.event = "positions loaded"]

(* requestData that always carries size_rate *)
RequestData_AlwaysRate(data, priceNum, sizeRateNum) ==
    [ip |-> data.ip, token_id |-> data.token_id, price |-> priceNum.value,
     size_rate |-> sizeRateNum.value]

(* requestData of handleSubmitLimitOrder *)
RequestData(data, priceNum, sizeRateNum) ==
    IF sizeRateNum.value # 10000
    THEN [ip |-> data.ip, token_id |-> data.token_id, price |-> priceNum.value,
          size_rate |-> sizeRateNum.value]
    ELSE [ip |-> data.ip, token_id |-> data.token_id, price |-> priceNum.value]

(* handleOpenLimitOrder *)
handleOpenLimitOrder(w, position) ==
    [w EXCEPT !.dialog.data = position, !.dialog.price = "", !.dialog.size_rate = "100",
              !.dialog.show = TRUE]

(* handleCloseLimitOrder *)
handleCloseLimitOrder(w) ==
    [w EXCEPT !.dialog.show = FALSE, !.dialog.data = NoData, !.dialog.price = "",
              !.dialog.size_rate = "100"]

(* handleSubmitLimitOrder up to the request *)
handleSubmitLimitOrder(w) ==
    LET priceNum == parseFloat(w.dialog.price)
        sizeRateNum == parseFloat(w.dialog.size_rate)
    IN  IF w.dialog.data = NoData THEN [w EXCEPT !.event = "order refused"]
        ELSE IF w.dialog.price = "" \/ w.dialog.size_rate = ""
        THEN [w EXCEPT !.toast = "fill in", !.event = "order refused"]
        ELSE IF priceNum.nan \/ priceNum.value <= 0
        THEN [w EXCEPT !.toast = "price", !.event = "order refused"]
        ELSE IF sizeRateNum.nan \/ sizeRateNum.value <= 0 \/ sizeRateNum.value > 10000
        THEN [w EXCEPT !.toast = "size_rate", !.event = "order refused"]
        ELSE \* the request is sent; limitOrderData stays in the closure
             [w EXCEPT !.dialog.submitting = TRUE,
                       !.dialog.pending = Append(@, RequestData(w.dialog.data, priceNum, sizeRateNum)),
                       !.dialog.sent = Append(@, RequestData(w.dialog.data, priceNum, sizeRateNum)),
                       !.event = "order sent"]

(* handleSubmitLimitOrder after the response, or after the rejection *)
OrderResponded(w, answer) ==
    LET ended == [w EXCEPT !.dialog.submitting = FALSE, !.dialog.pending = Tail(@),
                           !.toast = answer, !.event = "order " \o answer]
    IN  IF answer \in {"placed", "canceled"} THEN handleCloseLimitOrder(ended) ELSE ended

(* the limit order button of a position, disabled while submitting *)
OrderOpen ==
    /\ ~worker.dialog.submitting
    /\ "10.0.0.1" \in worker.showPositionsRows
    /\ \E position \in PositionRows :
          worker' = [handleOpenLimitOrder(worker, position) EXCEPT !.event = "order open"]
    /\ WorkerFrame

(* the inputs of the dialog, disabled while submitting *)
OrderEdit ==
    /\ worker.dialog.show
    /\ ~worker.dialog.submitting
    /\ \/ \E text \in PriceTexts :
             worker' = [worker EXCEPT !.dialog.price = text, !.event = "order edit"]
       \/ \E text \in RateTexts :
             worker' = [worker EXCEPT !.dialog.size_rate = text, !.event = "order edit"]
    /\ WorkerFrame

(* the overlay and the close button, enabled also while submitting *)
OrderClose ==
    /\ worker.dialog.show
    /\ worker' = [handleCloseLimitOrder(worker) EXCEPT !.event = "order close"]
    /\ WorkerFrame

(* the submit button, disabled while submitting or with an empty input *)
OrderSubmit ==
    /\ worker.dialog.show
    /\ ~worker.dialog.submitting
    /\ worker.dialog.price # ""
    /\ worker.dialog.size_rate # ""
    /\ Len(worker.dialog.sent) < MaxOrders
    /\ worker' = handleSubmitLimitOrder(worker)
    /\ WorkerFrame

(* modifyLimitOrder is answered with success (an order placed or a pending *)
(* one canceled), with success false, or is rejected                       *)
OrderAnswered ==
    /\ worker.dialog.pending # <<>>
    /\ \E answer \in {"placed", "canceled", "failed", "rejected"} :
          worker' = OrderResponded(worker, answer)
    /\ WorkerFrame

OrderNext ==
    \/ OrderOpen
    \/ OrderEdit
    \/ OrderClose
    \/ OrderSubmit
    \/ OrderAnswered

SpecOrder == OrderInit /\ [][OrderNext]_vars

(* a step of handleSubmitLimitOrder that sends a request *)
OrderSent == Len(worker'.dialog.sent) = Len(worker.dialog.sent) + 1

(* a step of handleSubmitLimitOrder *)
OrderStep == worker'.event \in {"order refused", "order sent", "order placed", "order canceled",
                               "order failed", "order rejected"}

(* C27: a modify-limit-order request is sent only with a selected          *)
(* position, a price that parses to a number above 0 and a size_rate that  *)
(* parses to a number in (0, 100]; it carries size_rate exactly when that  *)
(* differs from 100; handleSubmitLimitOrder closes the dialog and clears   *)
(* its data only after an answer with success, leaves both as they are on  *)
(* every failure, and submittingLimitOrder is false after every answer.    *)
C27_LimitOrder ==
    [][ /\ worker.phase = "mounted" /\ worker'.phase = "mounted" /\ worker' # worker =>
            /\ OrderSent =>
                  LET request == worker'.dialog.sent[Len(worker'.dialog.sent)]
                      priceNum == parseFloat(worker.dialog.price)
                      sizeRateNum == parseFloat(worker.dialog.size_rate)
                  IN  /\ worker.dialog.data \in PositionRows
                      /\ request.ip = worker.dialog.data.ip
                      /\ request.token_id = worker.dialog.data.token_id
                      /\ ~priceNum.nan /\ priceNum.value > 0 /\ request.price = priceNum.value
                      /\ ~sizeRateNum.nan /\ sizeRateNum.value > 0 /\ sizeRateNum.value <= 10000
                      /\ "size_rate" \in DOMAIN request <=> sizeRateNum.value # 10000
                      /\ "size_rate" \in DOMAIN request => request.size_rate = sizeRateNum.value
            /\ ~OrderSent => worker'.dialog.sent = worker.dialog.sent
            /\ worker'.event \in {"order placed", "order canceled"} =>
                  ~worker'.dialog.show /\ worker'.dialog.data = NoData
            /\ OrderStep /\ worker'.event \notin {"order placed", "order canceled"} =>
                  /\ worker'.dialog.show = worker.dialog.show
                  /\ worker'.dialog.data = worker.dialog.data
            /\ worker'.event \in {"order placed", "order canceled", "order failed", "order rejected",
                                  "order refused"} =>
                  ~worker'.dialog.submitting /\ worker'.dialog.pending = <<>>
      ]_vars

(* a request without size_rate has been answered with a failure and the   *)
(* dialog is still open with its position                                  *)
C27_Witness ==
    /\ worker.phase = "mounted"
    /\ worker.event = "order failed"
    /\ worker.dialog.show
    /\ worker.dialog.data \in PositionRows
    /\ ~worker.dialog.submitting
    /\ Len(worker.dialog.sent) = 1
    /\ "size_rate" \notin DOMAIN worker.dialog.sent[1]

(***************************************************************************)
(* wallet utilities: getPolygonProvider, getPolymarketProxyAddress and     *)
(* getWalletAndProxyAddress, called by concurrent callers                  *)
(***************************************************************************)
MaxCallers == 2             \* calls running in one run

(* time is counted in units of 2500 ms *)
WaitPolls == 2              \* 50 polls of 100 ms
ProbeTimeout == 2           \* 5000 ms
ContractTimeout == 4        \* 10000 ms

POLYGON_RPC_URLS ==
    << "https://polygon.drpc.org", "https://polygon.publicnode.com",
       "https://polygon-public.nodies.app", "https://rpc.ankr.com/polygon",
       "https://1rpc.io/matic", "https://tenderly.rpc.polygon.community" >>

Callers == 1 .. MaxCallers

(* SignatureType, and a number that is none of them *)
EOA == 0
Proxy == 1
Safe == 2
SignatureTypes == { EOA, Proxy, Safe, 7 }

(* private keys as the user types them: a key of 64 hex digits with and    *)
(* without prefix and with spaces around it, a key that is too short, none *)
KeyTexts == { "0xkey64", "key64", " 0xkey64 ", "0xkey", "" }

(* privateKey.trim() *)
trim(text) == IF text = " 0xkey64 " THEN "0xkey64" ELSE text

(* cleanedKey.startsWith('0x') ? cleanedKey : `0x${cleanedKey}` *)
keyWithPrefix(cleanedKey) ==
    IF cleanedKey \in { "0xkey64", "0xkey" } THEN cleanedKey ELSE "0x" \o cleanedKey

WalletAddress == "0xWalletAddress"
ProxyAddress == "0xProxyAddress"
ZeroAddress == "0x0000000000000000000000000000000000000000"
Null == "null"

(* new ethers.Wallet(key): the wallet's address, or an exception *)
Wallet(key) ==
    IF key = "0xkey64" THEN [ok |-> TRUE, address |-> WalletAddress]
    ELSE [ok |-> FALSE, address |-> ""]

isValidPrivateKey(privateKey) == Wallet(keyWithPrefix(trim(privateKey))).ok

getAddressFromPrivateKey(privateKey) == Wallet(keyWithPrefix(trim(privateKey))).address

(* ethers.isAddress behind the test for an empty string *)
isValidAddress(address) == address \in { WalletAddress, ProxyAddress, ZeroAddress }

BaseAddresses == { WalletAddress, "not an address" }

(* the calls made from outside the module *)
WalletInputs ==
    { [fn |-> "getWalletAndProxyAddress", key |-> k, address |-> "", signatureType |-> Proxy] :
        k \in KeyTexts }
ProxyInputs ==
    { [fn |-> "getPolymarketProxyAddress", key |-> "", address |-> a, signatureType |-> t] :
        a \in BaseAddresses, t \in SignatureTypes }

NoInput == [fn |-> "", key |-> "", address |-> "", signatureType |-> EOA]

NoOutcome == [status |-> "none", walletAddress |-> "", proxyAddress |-> "", error |-> "", cause |-> ""]

(* a call that has not started *)
IdleCall ==
    [pc |-> "idle", input |-> NoInput, walletAddress |-> "", polls |-> 0, index |-> 0,
     elapsed |-> 0, network |-> 0, waitedFor |-> 0, init |-> "none", result |-> NoOutcome]

(* the module after its import: no provider cached, nothing initializing *)
Imported ==
    [phase |-> "imported", cachedProvider |-> "", providerInitializing |-> FALSE, block |-> 0,
     calls |-> [c \in Callers |-> IdleCall]]

ProviderInit ==
    /\ cipher = NoCipher
    /\ jwt = NoJwt
    /\ AppStart
    /\ route = NoRoute
    /\ signup = NoSignup
    /\ util = NoUtil
    /\ batch = NoBatch
    /\ worker = NoWorker
    /\ provider = Imported

ProviderFrame == UNCHANGED << cipher, jwt, appVars, route, signup, util, batch, worker >>

(* the messages of the errors *)
ProcessFailed == "process failed"                   \* the prefix of getWalletAndProxyAddress
ProxyFailed == "proxy address failed"               \* the prefix of getPolymarketProxyAddress
InvalidKey == "invalid private key format"
InvalidBase == "invalid base wallet address"
InitTimedOut == "provider initialization timed out"
CannotConnect == "cannot connect to the Polygon network"
ProxyTimedOut == "proxy address timed out"
EmptyAddress == "returned address is empty"
MalformedAddress == "returned address is malformed"
CallException == "call exception"

(* getWalletAndProxyAddress that lets the error of the lookup through *)
LookupEnded_Rethrow(p, c, ok, value) ==
    LET call == p.calls[c]
    IN  [p EXCEPT !.calls[c].pc = "done",
                  !.calls[c].result =
                      IF ok THEN [NoOutcome EXCEPT !.status = "resolved",
                                                  !.walletAddress = call.walletAddress,
                                                  !.proxyAddress = value]
                      ELSE [NoOutcome EXCEPT !.status = "rejected", !.error = ProxyFailed,
                                            !.cause = value]]

(* the end of getPolymarketProxyAddress, and of getWalletAndProxyAddress   *)
(* around it: the lookup returned value, or threw an error with message    *)
(* value                                                                   *)
LookupEnded(p, c, ok, value) ==
    LET call == p.calls[c]
    IN  [p EXCEPT !.calls[c].pc = "done",
                  !.calls[c].result =
                      IF call.input.fn = "getWalletAndProxyAddress"
                      THEN [NoOutcome EXCEPT !.status = "resolved",
                                            !.walletAddress = call.walletAddress,
                                            !.proxyAddress = IF ok THEN value ELSE Null,
                                            !.cause = IF ok THEN "" ELSE value]
                      ELSE IF ok THEN [NoOutcome EXCEPT !.status = "resolved", !.proxyAddress = value]
                      ELSE [NoOutcome EXCEPT !.status = "rejected", !.error = ProxyFailed,
                                            !.cause = value]]

(* the contract call with the provider, raced against the timer of 10 s *)
ContractCall(p, c) ==
    [p EXCEPT !.calls[c].pc = "contract", !.calls[c].elapsed = 0, !.calls[c].network = @ + 1]

(* the probe of the endpoint at index, raced against the timer of 5 s *)
Probe(p, c, index) ==
    [p EXCEPT !.calls[c].pc = "probing", !.calls[c].index = index, !.calls[c].elapsed = 0,
              !.calls[c].network = @ + 1]

(* getPolygonProvider up to its first await *)
getPolygonProvider(p, c) ==
    IF p.cachedProvider # "" THEN ContractCall(p, c)
    ELSE IF p.providerInitializing
    THEN [p EXCEPT !.calls[c].pc = "waiting", !.calls[c].polls = 0,
                   !.calls[c].waitedFor = CHOOSE other \in Callers : p.calls[other].pc = "probing"]
    ELSE Probe([p EXCEPT !.providerInitializing = TRUE, !.calls[c].init = "running"], c, 1)

(* getPolymarketProxyAddress up to its first await *)
getPolymarketProxyAddress(p, c, walletAddress, signatureType) ==
    IF ~isValidAddress(walletAddress) THEN LookupEnded(p, c, FALSE, InvalidBase)
    ELSE IF signatureType = EOA THEN LookupEnded(p, c, TRUE, walletAddress)
    ELSE IF signatureType \in { Proxy, Safe } THEN getPolygonProvider(p, c)
    ELSE LookupEnded(p, c, TRUE, walletAddress)

(* getWalletAndProxyAddress up to its first await *)
getWalletAndProxyAddress(p, c, privateKey) ==
    IF ~isValidPrivateKey(privateKey)
    THEN [p EXCEPT !.calls[c].pc = "done",
                   !.calls[c].result = [NoOutcome EXCEPT !.status = "rejected",
                                                        !.error = ProcessFailed,
                                                        !.cause = InvalidKey]]
    ELSE getPolymarketProxyAddress(
             [p EXCEPT !.calls[c].walletAddress = getAddressFromPrivateKey(privateKey)],
             c, getAddressFromPrivateKey(privateKey), Proxy)

(* the end of the probing loop: the finally block, then the provider or    *)
(* the error goes to the caller                                            *)
ProbingEnded(p, c, ok) ==
    IF ok
    THEN ContractCall([p EXCEPT !.providerInitializing = FALSE, !.calls[c].init = "cached"], c)
    ELSE LookupEnded([p EXCEPT !.providerInitializing = FALSE, !.calls[c].init = "failed"],
                     c, FALSE, CannotConnect)

(* the probe failed: the next endpoint of the list, or the end of the loop *)
NextEndpoint(p, c) ==
    IF p.calls[c].index < Len(POLYGON_RPC_URLS)
    THEN Probe(p, c, p.calls[c].index + 1)
    ELSE ProbingEnded(p, c, FALSE)

(* a caller calls one of the exported functions *)
CallStart ==
    /\ \E c \in Callers : \E input \in WalletInputs \cup ProxyInputs :
          /\ provider.calls[c].pc = "idle"
          /\ \A earlier \in Callers : earlier < c => provider.calls[earlier].pc # "idle"
          /\ provider' =
                IF input.fn = "getWalletAndProxyAddress"
                THEN getWalletAndProxyAddress([provider EXCEPT !.calls[c].input = input], c, input.key)
                ELSE getPolymarketProxyAddress([provider EXCEPT !.calls[c].input = input], c,
                                               input.address, input.signatureType)
    /\ ProviderFrame

(* getBlockNumber answers before the timer: a block number, or an error *)
ProbeAnswered ==
    /\ \E c \in Callers : \E blockNumber \in { 0, 5, -1 } : \E rejected \in BOOLEAN :
          /\ provider.calls[c].pc = "probing"
          /\ provider.calls[c].elapsed < ProbeTimeout
          /\ provider' =
                IF ~rejected /\ blockNumber > 0
                THEN ProbingEnded([provider EXCEPT
                                      !.cachedProvider = POLYGON_RPC_URLS[provider.calls[c].index],
                                      !.block = blockNumber], c, TRUE)
                ELSE NextEndpoint(provider, c)
    /\ ProviderFrame

(* the timer of 5 s rejects the race *)
ProbeTimedOut ==
    /\ \E c \in Callers :
          /\ provider.calls[c].pc = "probing"
          /\ provider.calls[c].elapsed = ProbeTimeout
          /\ provider' = NextEndpoint(provider, c)
    /\ ProviderFrame

(* a waiting caller finds the cached provider at one of its polls *)
WaitReturned ==
    /\ \E c \in Callers :
          /\ provider.calls[c].pc = "waiting"
          /\ provider.calls[c].polls >= 1
          /\ provider.cachedProvider # ""
          /\ provider' = ContractCall(provider, c)
    /\ ProviderFrame

(* a waiting caller has polled 50 times without finding a provider *)
WaitTimedOut ==
    /\ \E c \in Callers :
          /\ provider.calls[c].pc = "waiting"
          /\ provider.calls[c].polls = WaitPolls
          /\ provider.cachedProvider = ""
          /\ provider' = LookupEnded(provider, c, FALSE, InitTimedOut)
    /\ ProviderFrame

(* the contract answers before the timer: an address, or an exception *)
ContractAnswered ==
    /\ \E c \in Callers : \E answer \in { ProxyAddress, ZeroAddress, "", "not an address", CallException } :
          /\ provider.calls[c].pc = "contract"
          /\ provider.calls[c].elapsed < ContractTimeout
          /\ provider' =
                IF answer = CallException THEN LookupEnded(provider, c, FALSE, CallException)
                ELSE IF answer = "" \/ answer = ZeroAddress
                THEN LookupEnded(provider, c, FALSE, EmptyAddress)
                ELSE IF ~isValidAddress(answer) THEN LookupEnded(provider, c, FALSE, MalformedAddress)
                ELSE LookupEnded(provider, c, TRUE, answer)
    /\ ProviderFrame

(* the timer of 10 s rejects the race *)
ContractTimedOut ==
    /\ \E c \in Callers :
          /\ provider.calls[c].pc = "contract"
          /\ provider.calls[c].elapsed = ContractTimeout
          /\ provider' = LookupEnded(provider, c, FALSE, ProxyTimedOut)
    /\ ProviderFrame

(* 2500 ms pass: every timer and every poll loop advances; a timer that    *)
(* has run out fires first                                                 *)
TimePasses ==
    /\ \E c \in Callers : provider.calls[c].pc \in { "waiting", "probing", "contract" }
    /\ \A c \in Callers :
          /\ provider.calls[c].pc = "probing" => provider.calls[c].elapsed < ProbeTimeout
          /\ provider.calls[c].pc = "contract" => provider.calls[c].elapsed < ContractTimeout
          /\ provider.calls[c].pc = "waiting" => provider.calls[c].polls < WaitPolls
    /\ provider' = [provider EXCEPT !.calls = [c \in Callers |->
                        IF @[c].pc = "waiting" THEN [@[c] EXCEPT !.polls = @ + 1]
                        ELSE IF @[c].pc \in { "probing", "contract" } THEN [@[c] EXCEPT !.elapsed = @ + 1]
                        ELSE @[c]]]
    /\ ProviderFrame

ProviderNext ==
    \/ CallStart
    \/ ProbeAnswered
    \/ ProbeTimedOut
    \/ WaitReturned
    \/ WaitTimedOut
    \/ ContractAnswered
    \/ ContractTimedOut
    \/ TimePasses

SpecProvider == ProviderInit /\ [][ProviderNext]_vars

Probing(p) == { c \in Callers : p.calls[c].pc = "probing" }

(* what the statement says of probing and of the cache, for one step *)
InitializedOnce ==
    /\ Cardinality(Probing(provider')) <= 1
    /\ \A c \in Callers :
          provider'.calls[c].pc = "probing" =>
              \/ provider.calls[c].pc = "idle" /\ provider'.calls[c].index = 1
              \/ /\ provider.calls[c].pc = "probing"
                 /\ provider'.calls[c].index \in { provider.calls[c].index, provider.calls[c].index + 1 }
    /\ provider'.cachedProvider # provider.cachedProvider =>
          /\ provider.cachedProvider = ""
          /\ provider'.block > 0
          /\ \E c \in Probing(provider) :
                /\ provider.calls[c].elapsed < ProbeTimeout
                /\ provider'.cachedProvider = POLYGON_RPC_URLS[provider.calls[c].index]
    /\ provider.cachedProvider # "" => Probing(provider') = {}
    /\ provider'.providerInitializing <=> Probing(provider') # {}

(* a caller that waited has failed though the initialization it waited for *)
(* cached a provider                                                       *)
WaiterLeftOut(p) ==
    \E c \in Callers :
        /\ p.calls[c].pc = "done"
        /\ p.calls[c].result.cause = InitTimedOut
        /\ p.calls[p.calls[c].waitedFor].init = "cached"

(* C28: with concurrent callers of getPolygonProvider at most one caller   *)
(* probes at any time, the endpoints are tried in list order, the cache is *)
(* set only to a provider whose probe returned a positive block number     *)
(* within 5 seconds, a cached provider never changes and is returned       *)
(* without probing, providerInitializing is false whenever nobody probes,  *)
(* and a caller that arrives during an initialization gets the provider it *)
(* caches, failing only if that initialization fails.                      *)
C28_SharedInitialization ==
    [][ provider.phase = "imported" /\ provider'.phase = "imported" =>
            InitializedOnce /\ ~WaiterLeftOut(provider') ]_vars

Done(c) == provider.phase = "imported" /\ provider.calls[c].pc = "done"

(* what holds of an ended call of getWalletAndProxyAddress *)
WalletCallEnded(call) ==
    /\ call.result.status = "rejected" <=> ~isValidPrivateKey(call.input.key)
    /\ call.result.status = "rejected" =>
          /\ call.result.error = ProcessFailed
          /\ call.network = 0
    /\ call.result.status # "rejected" =>
          /\ call.result.status = "resolved"
          /\ call.result.walletAddress = getAddressFromPrivateKey(call.input.key)
          /\ call.result.cause # "" <=> call.result.proxyAddress = Null

(* C29 as stated: getWalletAndProxyAddress rejects, with the error of its  *)
(* catch block and before any network use, exactly when the private key is *)
(* invalid, and otherwise resolves with the wallet address, proxyAddress   *)
(* being null whenever the lookup fails; getPolymarketProxyAddress returns *)
(* the base address without a network call for the type EOA or an unknown  *)
(* type.                                                                   *)
C29_AsStated ==
    \A c \in Callers :
        Done(c) =>
            LET call == provider.calls[c]
            IN  /\ call.input.fn = "getWalletAndProxyAddress" => WalletCallEnded(call)
                /\ call.input.fn = "getPolymarketProxyAddress"
                   /\ call.input.signatureType \notin { Proxy, Safe } =>
                      /\ call.network = 0
                      /\ call.result.status = "resolved"
                      /\ call.result.proxyAddress = call.input.address

(* C29: the same, where getPolymarketProxyAddress returns the base address *)
(* for the type EOA or an unknown type when the base address is a valid    *)
(* address, and rejects without a network call when it is not.             *)
C29_WalletAndProxy ==
    \A c \in Callers :
        Done(c) =>
            LET call == provider.calls[c]
            IN  /\ call.input.fn = "getWalletAndProxyAddress" => WalletCallEnded(call)
                /\ call.input.fn = "getPolymarketProxyAddress"
                   /\ call.input.signatureType \notin { Proxy, Safe } =>
                      /\ call.network = 0
                      /\ isValidAddress(call.input.address) =>
                            /\ call.result.status = "resolved"
                            /\ call.result.proxyAddress = call.input.address
                      /\ ~isValidAddress(call.input.address) =>
                            /\ call.result.status = "rejected"
                            /\ call.result.error = ProxyFailed
                            /\ call.result.cause = InvalidBase

(* a call with a valid key typed without prefix has resolved with the      *)
(* wallet address and a null proxyAddress, no endpoint having answered,    *)
(* and a call with an invalid key has been rejected                        *)
C29_Witness ==
    /\ provider.phase = "imported"
    /\ \E c \in Callers :
          /\ provider.calls[c].pc = "done"
          /\ provider.calls[c].input.key = "key64"
          /\ provider.calls[c].result.status = "resolved"
          /\ provider.calls[c].result.walletAddress = WalletAddress
          /\ provider.calls[c].result.proxyAddress = Null
          /\ provider.calls[c].result.cause = CannotConnect
    /\ \E c \in Callers :
          /\ provider.calls[c].pc = "done"
          /\ provider.calls[c].input.key = "0xkey"
          /\ provider.calls[c].result.status = "rejected"

====
